---- MODULE Spec2Model ----
(***************************************************************************)
(* Remote-image rendering and caching subsystem of torutora               *)
(* (WatermarkedImage component, latest variant: src/unnamed/part_004,      *)
(* with its caller src/src/pages/PhotoSelectPage.tsx).                     *)
(*                                                                         *)
(* State: the module-level imageCache and preloadingImages maps, every     *)
(* Image object created by the display, preload and priority-load paths    *)
(* (with its timers and its dedupe flags), the React state of each mounted *)
(* WatermarkedImage instance, and the overlays of the photo modal.         *)
(*                                                                         *)
(* Specifications: Spec (the whole subsystem), CacheSpec (the Cache Store), *)
(* PreloadSpec (the Preloader with one instance), PageSpec (the photo      *)
(* modal), RenderSpec (the Watermark Renderer), KeySpec (the cache key).   *)
(***************************************************************************)
EXTENDS Integers, Sequences, FiniteSets, TLC

(***************************************************************************)
(* Bounds of the model.                                                    *)
(***************************************************************************)
\* The capacity the whole-system specification runs with (the source's 20, scaled down).
SmallCapacity == 3
\* What the Safari "aggressive cleanup" keeps under that capacity (the source's 5).
SmallKeep == 1
\* Clock ticks the whole-system specification runs for (one tick = 60 minutes).
MaxTime == 1
\* Calls the page makes in one run: mount, change, reload, preload, priority load.
MaxCalls == 2
\* Image objects and preload waits created in one run.
MaxLoads == 3

(***************************************************************************)
(* Program constants.                                                      *)
(***************************************************************************)
MAX_CACHE_SIZE == 20
\* "if (entries.length > 5)": what the Safari aggressive cleanup keeps.
AGGRESSIVE_KEEP == 5
\* 60 * 60 * 1000 ms, in clock ticks of 60 minutes.
CACHE_EXPIRY_TIME == 1

\* "const MAX_CANVAS_DIMENSION = 1024" and "const MAX_CANVAS_AREA = 1024 * 1024" of the
\* component, of preloadImage and of the onload handler of loadImageWithPriority.
MAX_CANVAS_DIMENSION == 1024
MAX_CANVAS_AREA == 1048576
PRELOAD_MAX_CANVAS_DIMENSION == 1024
PRELOAD_MAX_CANVAS_AREA == 1048576
PRIORITY_MAX_CANVAS_DIMENSION == 1024
PRIORITY_MAX_CANVAS_AREA == 1048576

\* Locators of the photographs the caller shows, and the fallback locator.
Srcs == {"a", "b"}
FallbackSrc == "f"
\* fallbackSrc is optional: the empty string is JavaScript's falsy value.
NoSrc == ""
\* The caller may pass no fallback, a different one, or the primary itself.
Fallbacks(src) == {NoSrc, FallbackSrc}
\* Display labels (alt).
Labels == {"p"}
\* Display instances (mounted WatermarkedImage components).
Insts == {1, 2}
\* Locators whose decoded bitmap is grey in its top-left 10x10 pixels (R=G=B).
GraySrcs == {"b"}

VARIABLES
    safari,            \* isSafari && isMobile: the constrained-engine flag
    now,               \* Date.now(), in ticks
    imageCache,        \* Map<string, CachedImage>, in insertion order
    preloadingImages,  \* Map<string, Promise<void>>: key -> index of the load owning the promise
    loads,             \* every Image object / preload wait created so far
    inst,              \* React state of each WatermarkedImage instance
    hung,              \* the main thread is stuck in an endless microtask loop
    capacity,          \* the capacity this run uses for MAX_CACHE_SIZE
    calls,             \* calls the page has made so far
    written,           \* history: the keys of the imageCache.set calls, in order
    budget,            \* the number of calls the page makes in this run
    modal,             \* PhotoSelectPage: modalPhoto, modalImageLoading, modalImageError
    probe              \* the inputs and results of the functions exercised on their own

vars == <<safari, now, imageCache, preloadingImages, loads, inst, hung, capacity, calls,
          written, budget, modal, probe>>

\* The aggressive-cleanup size that goes with the capacity of the run.
Keep == IF capacity = MAX_CACHE_SIZE THEN AGGRESSIVE_KEEP ELSE SmallKeep

(***************************************************************************)
(* Cache Store                                                             *)
(***************************************************************************)
getCacheKey(src, alt) == src \o "|" \o alt

CacheKeys(c) == {c[n].key : n \in 1..Len(c)}

CacheHas(c, key) == key \in CacheKeys(c)

\* Map.get: the entry stored under key (only used when CacheHas).
CacheGet(c, key) == c[CHOOSE n \in 1..Len(c) : c[n].key = key]

\* Map.delete for a set of keys.
CacheDelete(c, keys) == SelectSeq(c, LAMBDA e : e.key \notin keys)

\* Map.set: an existing key keeps its insertion position, a new key is appended.
CacheSet(c, key, canvas, ts) ==
    LET e == [key |-> key, canvas |-> canvas, timestamp |-> ts]
    IN  IF CacheHas(c, key)
        THEN [n \in 1..Len(c) |-> IF c[n].key = key THEN e ELSE c[n]]
        ELSE Append(c, e)

\* entries.sort((a, b) => a[1].timestamp - b[1].timestamp): a stable sort.
RECURSIVE InsertByTs(_, _)
InsertByTs(sorted, e) ==
    IF sorted = <<>> THEN <<e>>
    ELSE IF Head(sorted).timestamp <= e.timestamp
         THEN <<Head(sorted)>> \o InsertByTs(Tail(sorted), e)
         ELSE <<e>> \o sorted

RECURSIVE SortByTs(_)
SortByTs(c) ==
    IF c = <<>> THEN <<>>
    ELSE InsertByTs(SortByTs(SubSeq(c, 1, Len(c) - 1)), c[Len(c)])

\* The keys of the first n entries of the sorted list (entries.slice(0, n)).
\* The other end of the sorted array.
NewestKeys(c, n) ==
    LET s == SortByTs(c)
    IN  {s[m].key : m \in (Len(s) - (IF n < 0 THEN 0 ELSE n) + 1)..Len(s)}

OldestKeys(c, n) ==
    LET s == SortByTs(c) IN {s[m].key : m \in 1..(IF n < 0 THEN 0 ELSE n)}

\* A sweep that drops nothing for its age.
cleanupExpiredCacheNever(c, t) == c

cleanupExpiredCache(c, t) ==
    SelectSeq(c, LAMBDA e : ~(t - e.timestamp > CACHE_EXPIRY_TIME))

\* A sweep that never trims.
cleanupOldCacheNever(c, max) == c

\* A sweep that trims to two entries fewer than the capacity.
cleanupOldCacheTight(c, max) ==
    IF Len(c) <= max - 2 THEN c
    ELSE CacheDelete(c, {SortByTs(c)[m].key : m \in 1..(Len(c) - (max - 2))})

cleanupOldCache(c, max) ==
    IF Len(c) <= max THEN c
    ELSE CacheDelete(c, OldestKeys(c, Len(c) - max))

\* Math.floor(entries.length * 0.5) and Math.floor(entries.length * 0.3)
HalfOf(n) == (n * 5) \div 10
ThirdOf(n) == (n * 3) \div 10

\* currentSize > MAX_CACHE_SIZE * 0.8 (0.6, 0.4), in tenths.
checkMemoryPressure(c, constrained, max) ==
    IF ~constrained THEN c
    ELSE IF 10 * Len(c) > 8 * max THEN cleanupOldCache(c, max)
    ELSE IF 10 * Len(c) > 6 * max THEN CacheDelete(c, OldestKeys(c, HalfOf(Len(c))))
    ELSE IF 10 * Len(c) > 4 * max THEN CacheDelete(c, OldestKeys(c, ThirdOf(Len(c))))
    ELSE c

\* put: imageCache.set(key, {canvas, timestamp: Date.now()}) followed by both sweeps.
CachePut(c, key, canvas, t, max) ==
    cleanupOldCache(cleanupExpiredCache(CacheSet(c, key, canvas, t), t), max)

(***************************************************************************)
(* Records                                                                 *)
(***************************************************************************)
\* The program state the handlers read and write, threaded through the operators.
Cur == [cache |-> imageCache, reg |-> preloadingImages, loads |-> loads,
        inst |-> inst, hung |-> hung, written |-> written, modal |-> modal]

\* An empty canvas: no bitmap, drawn by no load, no watermark line.
Blank == [img |-> "", by |-> 0, marks |-> 0]

\* A component slot before its first mount.
Unmounted ==
    [mounted |-> FALSE, src |-> "", alt |-> "", fb |-> "", imageId |-> "",
     currentImageId |-> "", isLoading |-> FALSE, error |-> FALSE, req |-> 0,
     surf |-> Blank, reloadedFrom |-> ""]

\* Idle (not mounted), Loading, Displaying or Error, as the component renders it.
PhaseOf(r) ==
    IF ~r.mounted THEN "idle"
    ELSE IF r.error THEN "error"
    ELSE IF r.isLoading THEN "loading"
    ELSE "displaying"

\* The values a getCachedOrCreateImage closure captured from its render.
Closure(i, alt, fb, cId, cCur, req) ==
    [owner |-> i, alt |-> alt, fb |-> fb, cId |-> cId, cCur |-> cCur, req |-> req]

NoClosure == Closure(0, "", "", "", "", 0)

\* imageId && currentImageId && imageId !== currentImageId, on the captured values.
Outdated(l) == l.cId # "" /\ l.cCur # "" /\ l.cId # l.cCur

\* One Image object (kind display, preload or priority), one wait of a display
\* request on a registered promise (kind wait), or one cache-hit display (kind hit).
LoadRec(kind, src, cl, isFallback, target) ==
    [kind |-> kind, src |-> src, alt |-> cl.alt, fb |-> cl.fb,
     owner |-> cl.owner, req |-> cl.req, cId |-> cl.cId, cCur |-> cl.cCur,
     isFallback |-> isFallback,
     orphan |-> FALSE,        \* the owning component instance was unmounted
     detached |-> FALSE,      \* the canvas element captured at creation left the page
     net |-> "pending",       \* pending | ok | fail: img.complete and naturalWidth
     nativeDone |-> FALSE,    \* the native load/error event was dispatched
     onloadCalled |-> FALSE, onerrorCalled |-> FALSE,
     ran |-> 0,               \* how often the body of onload or onerror ran (history)
     timeoutArmed |-> kind \in {"display", "preload", "priority", "wait"},
     pollActive |-> safari /\ kind \in {"display", "preload", "priority"},
     pollStopArmed |-> safari /\ kind \in {"display", "preload", "priority"},
     promise |-> IF kind \in {"preload", "priority"} THEN "pending" ELSE "none",
     follows |-> 0,           \* the promise adopted through .then(resolve).catch(reject)
     target |-> target,       \* kind wait: the load whose promise is awaited
     ready |-> IF kind = "hit" THEN "scheduled" ELSE "no",  \* onLoadComplete: no | scheduled | fired
     errHook |-> FALSE]       \* onLoadError was invoked

KeyOf(l) == getCacheKey(l.src, l.alt)

ClosureOf(l) == Closure(l.owner, l.alt, l.fb, l.cId, l.cCur, l.req)

RegSet(reg, key, n) == [k \in DOMAIN reg \cup {key} |-> IF k = key THEN n ELSE reg[k]]

RegDelete(reg, key) == [k \in DOMAIN reg \ {key} |-> reg[k]]

\* canvasRef.current of the closure's component: null once the component was
\* unmounted, and null while the error placeholder is rendered instead of the canvas.
CanvasMounted(s, l) == ~l.orphan /\ ~s.inst[l.owner].error

\* setIsLoading / setError from a handler: React ignores them after unmount.
SetState(s, l, loading, err) ==
    IF l.orphan THEN s
    ELSE [s EXCEPT !.inst[l.owner].isLoading = loading,
                   !.inst[l.owner].error = err,
                   \* rendering the error placeholder removes the canvas element
                   !.inst[l.owner].surf = IF err THEN Blank ELSE @,
                   !.loads = IF err /\ ~s.inst[l.owner].error
                             THEN [n \in 1..Len(s.loads) |->
                                     IF s.loads[n].owner = l.owner
                                     THEN [s.loads[n] EXCEPT !.detached = TRUE]
                                     ELSE s.loads[n]]
                             ELSE @]

(***************************************************************************)
(* String helpers (String.prototype.includes, split('?')[0])               *)
(***************************************************************************)
Contains(str, sub) ==
    \E n \in 1..(Len(str) - Len(sub) + 1) : SubSeq(str, n, n + Len(sub) - 1) = sub

BaseUrl(src) ==
    LET qs == {n \in 1..Len(src) : SubSeq(src, n, n) = "?"}
    IN  IF qs = {} THEN src
        ELSE SubSeq(src, 1, (CHOOSE n \in qs : \A m \in qs : n <= m) - 1)

Min(S) == CHOOSE n \in S : \A m \in S : n <= m

(***************************************************************************)
(* Watermark Renderer: the canvas a successful render produces             *)
(***************************************************************************)
Larger(a, b) == IF a >= b THEN a ELSE b

\* The largest n in lo..hi with n * n <= x (Math.sqrt, rounded down).
RECURSIVE SqrtBetween(_, _, _)
SqrtBetween(x, lo, hi) ==
    IF lo >= hi THEN lo
    ELSE IF ((lo + hi + 1) \div 2) * ((lo + hi + 1) \div 2) <= x
         THEN SqrtBetween(x, (lo + hi + 1) \div 2, hi)
         ELSE SqrtBetween(x, lo, ((lo + hi + 1) \div 2) - 1)

\* The least whole number whose square is x or more.
SqrtUp(x) ==
    IF SqrtBetween(x, 0, 46000) * SqrtBetween(x, 0, 46000) = x
    THEN SqrtBetween(x, 0, 46000) ELSE SqrtBetween(x, 0, 46000) + 1

\* Math.floor(x * (num / den)): the double product of a whole result may fall one
\* unit in the last place short of it, and then the floor is one less (slack).
FloorMul(x, num, den, slack) ==
    IF (x * num) % den = 0 /\ (x * num) \div den > 0
    THEN ((x * num) \div den) - slack
    ELSE (x * num) \div den

\* Math.floor(x * Math.sqrt(area / (w * h))): the largest n with n * n * w * h <= area * x * x.
FloorArea(x, w, h, area) ==
    CHOOSE n \in 0..x : n * n * h * w <= area * x * x /\ (n + 1) * (n + 1) * h * w > area * x * x

\* "if (width * height > MAX_CANVAS_AREA)", on the size the first check left.
AreaLimit(size, area) ==
    IF size.width * size.height > area
    THEN [width |-> FloorArea(size.width, size.width, size.height, area),
          height |-> FloorArea(size.height, size.width, size.height, area)]
    ELSE size

\* "if (width > MAX_CANVAS_DIMENSION || height > MAX_CANVAS_DIMENSION)":
\* ratio = Math.min(MAX / width, MAX / height) is MAX over the longer edge.
EdgeLimit(w, h, edge, slack) ==
    IF w > edge \/ h > edge
    THEN [width |-> FloorMul(w, edge, Larger(w, h), slack),
          height |-> FloorMul(h, edge, Larger(w, h), slack)]
    ELSE [width |-> w, height |-> h]

\* A size function that cuts each edge on its own.
getOptimalCanvasSizeEachEdge(w, h, slack) ==
    [width |-> IF w > MAX_CANVAS_DIMENSION THEN MAX_CANVAS_DIMENSION ELSE w,
     height |-> IF h > MAX_CANVAS_DIMENSION THEN MAX_CANVAS_DIMENSION ELSE h]

\* getOptimalCanvasSize of the component
getOptimalCanvasSize(w, h, slack) ==
    AreaLimit(EdgeLimit(w, h, MAX_CANVAS_DIMENSION, slack), MAX_CANVAS_AREA)

\* getOptimalCanvasSize of preloadImage
preloadCanvasSize(w, h, slack) ==
    AreaLimit(EdgeLimit(w, h, PRELOAD_MAX_CANVAS_DIMENSION, slack), PRELOAD_MAX_CANVAS_AREA)

\* getOptimalCanvasSize of the onload handler of loadImageWithPriority
priorityCanvasSize(w, h, slack) ==
    AreaLimit(EdgeLimit(w, h, PRIORITY_MAX_CANVAS_DIMENSION, slack), PRIORITY_MAX_CANVAS_AREA)

\* The watermark the three onload handlers draw over the bitmap, in the units of the
\* code times 100 (font, lineSpacing): font = max(width * 0.05, 24), lineSpacing =
\* max(height * 0.15, 80), numLines = ceil(diagonal / lineSpacing) + 6, and the lines
\* drawn are those of lineIndex -floor(numLines / 2) .. floor(numLines / 2).
Watermark(size, family) ==
    [text |-> "ToruTora", family |-> family, angle |-> -30,
     font |-> Larger(size.width * 5, 2400),
     lineSpacing |-> Larger(size.height * 15, 8000),
     numLines |-> ((SqrtUp(400 * (size.width * size.width + size.height * size.height))
                      + Larger(size.height * 3, 1600) - 1)
                    \div Larger(size.height * 3, 1600)) + 6]

\* The lines of text drawn: lineIndex 0 runs through the centre of the canvas.
LinesDrawn(wm) == 2 * (wm.numLines \div 2) + 1

\* A render that draws the bitmap and leaves the watermark out.
Unmarked(bitmap, size, wm) ==
    [img |-> bitmap.img, width |-> size.width, height |-> size.height,
     watermark |-> wm, marks |-> 0]

\* canvas = drawImage(img, 0, 0, width, height) + the watermark lines
Artifact(bitmap, size, wm) ==
    [img |-> bitmap.img, width |-> size.width, height |-> size.height,
     watermark |-> wm, marks |-> LinesDrawn(wm)]

\* The font a preload would use if it kept its first assignment ("Arial").
preloadRenderArial(bitmap, slack) ==
    Artifact(bitmap, preloadCanvasSize(bitmap.w, bitmap.h, slack),
             Watermark(preloadCanvasSize(bitmap.w, bitmap.h, slack), "Arial"))

\* The render of loadImageDirectly.onload
displayRender(bitmap, slack) ==
    Artifact(bitmap, getOptimalCanvasSize(bitmap.w, bitmap.h, slack),
             Watermark(getOptimalCanvasSize(bitmap.w, bitmap.h, slack), "serif"))

\* The render of preloadImage.onload
preloadRender(bitmap, slack) ==
    Artifact(bitmap, preloadCanvasSize(bitmap.w, bitmap.h, slack),
             Watermark(preloadCanvasSize(bitmap.w, bitmap.h, slack), "serif"))

\* The render of loadImageWithPriority.onload
priorityRender(bitmap, slack) ==
    Artifact(bitmap, priorityCanvasSize(bitmap.w, bitmap.h, slack),
             Watermark(priorityCanvasSize(bitmap.w, bitmap.h, slack), "serif"))

\* The decoded bitmap of each locator: img.width x img.height.
BitmapOf(src) ==
    IF src = "a" THEN [img |-> src, w |-> 3000, h |-> 2000]
    ELSE IF src = "b" THEN [img |-> src, w |-> 800, h |-> 600]
    ELSE IF src = "c" THEN [img |-> src, w |-> 1024, h |-> 1024]
    ELSE IF src = "d" THEN [img |-> src, w |-> 1, h |-> 5000]
    ELSE [img |-> src, w |-> 640, h |-> 480]

\* drawImage of the decoded bitmap of src plus the watermark overlay, as the onload
\* handler of the path draws it.
RenderOf(kind, src) ==
    IF kind = "preload" THEN preloadRender(BitmapOf(src), 0)
    ELSE IF kind = "priority" THEN priorityRender(BitmapOf(src), 0)
    ELSE displayRender(BitmapOf(src), 0)

\* The renders of the locators the display instances use, computed once: a render
\* depends on nothing but the path and the decoded bitmap.
RenderTable ==
    [kind \in {"display", "preload", "priority"} |->
        [src \in Srcs \cup {FallbackSrc} |-> RenderOf(kind, src)]]

RenderBy(kind, src) ==
    IF kind \in DOMAIN RenderTable /\ src \in Srcs \cup {FallbackSrc}
    THEN RenderTable[kind][src]
    ELSE RenderOf(kind, src)

RenderCanvas(src) == RenderBy("display", src)

\* The first 10x10 pixels all have R = G = B.
IsGrayCanvas(canvas) == canvas.img \in GraySrcs

(***************************************************************************)
(* Display Controller: lookup, wait, direct load                           *)
(***************************************************************************)
\* loadImageDirectly: without a mounted canvas it returns at once.
loadImageDirectly(s, cl, imageSrc, isFallback, canvasOk) ==
    IF ~canvasOk THEN s
    ELSE [s EXCEPT !.loads = Append(@, LoadRec("display", imageSrc, cl, isFallback, 0))]

\* "if (imageSrc.includes('?t='))": the forced reload deletes the key and, on a
\* constrained engine, every key that holds the base URL and the label.
ForcedReloadCleanup(c, imageSrc, alt, key) ==
    IF ~Contains(imageSrc, "?t=") THEN c
    ELSE IF ~safari THEN CacheDelete(c, {key})
    ELSE CacheDelete(c, {key} \cup {k \in CacheKeys(c) :
                            Contains(k, BaseUrl(imageSrc)) /\ Contains(k, alt)})

\* A grey-canvas check that runs on every engine.
GrayCleanupOnEveryEngine(c, key) ==
    IF IsGrayCanvas(CacheGet(c, key).canvas) THEN CacheDelete(c, {key}) ELSE c

\* The constrained-engine check of the cached canvas: a grey one is deleted.
GrayCleanup(c, key) ==
    IF safari /\ IsGrayCanvas(CacheGet(c, key).canvas) THEN CacheDelete(c, {key}) ELSE c

\* A cleanup on a miss that every engine runs.
AggressiveCleanupOnEveryEngine(c) ==
    IF Len(c) > Keep THEN CacheDelete(c, OldestKeys(c, Len(c) - Keep)) ELSE c

\* The constrained-engine cleanup on a miss: keep the newest entries only.
AggressiveCleanup(c) ==
    IF safari /\ Len(c) > Keep THEN CacheDelete(c, OldestKeys(c, Len(c) - Keep)) ELSE c

\* "if (cached && Date.now() - cached.timestamp < CACHE_EXPIRY_TIME)": copy the cached
\* canvas, clear the flags, schedule onLoadComplete; an expired entry is loaded afresh.
CachedPath(s, cl, imageSrc, isFallback, canvasOk, cached) ==
    IF now - cached.timestamp < CACHE_EXPIRY_TIME
    THEN IF canvasOk
         THEN [s EXCEPT !.inst[cl.owner].surf = [img |-> cached.canvas.img, by |-> 0,
                                                  marks |-> cached.canvas.marks],
                        !.inst[cl.owner].isLoading = FALSE,
                        !.inst[cl.owner].error = FALSE,
                        !.loads = Append(@, LoadRec("hit", imageSrc, cl, isFallback, 0))]
         ELSE s
    ELSE loadImageDirectly(s, cl, imageSrc, isFallback, canvasOk)

\* "if (preloadingImages.has(cacheKey))": wait for the promise of load t, 3 s at most.
WaitPath(s, cl, imageSrc, isFallback, t) ==
    IF s.loads[t].promise = "resolved"
    THEN \* .then runs at once, looks up again, misses again, waits again: no end
         [s EXCEPT !.hung = TRUE]
    ELSE IF s.loads[t].promise = "rejected"
    THEN \* .catch calls loadImageDirectly before its initialisation: it throws
         s
    ELSE [s EXCEPT !.loads = Append(@, LoadRec("wait", imageSrc, cl, isFallback, t))]

\* "if (!cached)": wait for a running preload, else clean up and load directly.
MissPath(s, cl, imageSrc, isFallback, canvasOk, key) ==
    IF key \in DOMAIN s.reg
    THEN WaitPath(s, cl, imageSrc, isFallback, s.reg[key])
    ELSE loadImageDirectly([s EXCEPT !.cache = AggressiveCleanup(@)],
                           cl, imageSrc, isFallback, canvasOk)

\* The lookup in the cache c that pressure check and forced-reload cleanup left.
LookupIn(s, cl, imageSrc, isFallback, canvasOk, key, c) ==
    IF CacheHas(c, key)
    THEN CachedPath([s EXCEPT !.cache = GrayCleanup(c, key)],
                    cl, imageSrc, isFallback, canvasOk, CacheGet(c, key))
    ELSE MissPath([s EXCEPT !.cache = c], cl, imageSrc, isFallback, canvasOk, key)

getCachedOrCreateImage(s, cl, imageSrc, isFallback, canvasOk) ==
    LookupIn(s, cl, imageSrc, isFallback, canvasOk, getCacheKey(imageSrc, cl.alt),
             ForcedReloadCleanup(checkMemoryPressure(s.cache, safari, capacity),
                                 imageSrc, cl.alt, getCacheKey(imageSrc, cl.alt)))

(***************************************************************************)
(* Promises of the preload and priority pipelines                          *)
(***************************************************************************)
\* The reaction a waiting display request registered with .then(...).catch(...).
React(s, w, outcome) ==
    IF s.hung THEN s
    ELSE IF outcome = "resolved"
    THEN getCachedOrCreateImage(
             [s EXCEPT !.loads[w].timeoutArmed = FALSE, !.loads[w].nativeDone = TRUE],
             ClosureOf(s.loads[w]), s.loads[w].src, s.loads[w].isFallback,
             CanvasMounted(s, s.loads[w]))
    ELSE \* .catch: loadImageDirectly() is still uninitialised in this call and throws
         [s EXCEPT !.loads[w].timeoutArmed = FALSE, !.loads[w].nativeDone = TRUE]

RECURSIVE ReactAll(_, _, _)
ReactAll(s, ws, outcome) ==
    IF ws = {} THEN s
    ELSE ReactAll(React(s, Min(ws), outcome), ws \ {Min(ws)}, outcome)

RECURSIVE Settle(_, _, _)
RECURSIVE SettleAll(_, _, _)
RECURSIVE SettleFollowers(_, _, _)
\* resolve() / reject() of load n's promise, then its reactions in registration order.
\* The display requests waiting for load n's promise.
Waiters(s, n) ==
    {w \in 1..Len(s.loads) :
        s.loads[w].kind = "wait" /\ s.loads[w].target = n /\ ~s.loads[w].nativeDone}

\* The promises that adopted load n's promise.
Followers(s, n) ==
    {m \in 1..Len(s.loads) : s.loads[m].follows = n /\ s.loads[m].promise = "pending"}

SettleFollowers(s, n, outcome) == SettleAll(s, Followers(s, n), outcome)

Settle(s, n, outcome) ==
    IF s.loads[n].promise # "pending" THEN s
    ELSE SettleFollowers(ReactAll([s EXCEPT !.loads[n].promise = outcome],
                                  Waiters(s, n), outcome),
                         n, outcome)

SettleAll(s, ps, outcome) ==
    IF ps = {} THEN s
    ELSE SettleAll(Settle(s, Min(ps), outcome), ps \ {Min(ps)}, outcome)

\* preloadImage / loadImageWithPriority up to the creation of the Image: ret is 0
\* for Promise.resolve(), else the load whose promise is returned.
StartPipeline(s, kind, src, alt, fb) ==
    LET key == getCacheKey(src, alt)
        n == Len(s.loads) + 1
        cl == [NoClosure EXCEPT !.alt = alt, !.fb = fb]
    IN  IF CacheHas(s.cache, key) THEN [s |-> s, ret |-> 0]
        ELSE IF key \in DOMAIN s.reg THEN [s |-> s, ret |-> s.reg[key]]
        ELSE [s |-> [s EXCEPT !.loads = Append(@, LoadRec(kind, src, cl, FALSE, 0)),
                              !.reg = RegSet(@, key, n)],
              ret |-> n]

\* pipeline(fallbackSrc, alt).then(resolve).catch(reject) inside load n's onerror.
Adopt(r, n) ==
    IF r.ret # 0 /\ r.s.loads[r.ret].promise = "pending"
    THEN [r.s EXCEPT !.loads[n].follows = r.ret]
    ELSE Settle(r.s, n, IF r.ret = 0 THEN "resolved" ELSE r.s.loads[r.ret].promise)

TryFallback(s, n) ==
    Adopt(StartPipeline(s, s.loads[n].kind, s.loads[n].fb, s.loads[n].alt, NoSrc), n)

(***************************************************************************)
(* Handlers of one Image object                                            *)
(***************************************************************************)
ClearTimeout(s, n) == [s EXCEPT !.loads[n].timeoutArmed = FALSE]

\* img.onload of loadImageDirectly
DisplayOnload(s, n) ==
    LET l == s.loads[n]
        s0 == ClearTimeout(s, n)
        s1 == [s0 EXCEPT !.loads[n].onloadCalled = TRUE, !.loads[n].ran = @ + 1]
        \* drawImage + watermark into the canvas captured when the load started
        s2 == IF l.detached THEN s1
              ELSE [s1 EXCEPT !.inst[l.owner].surf =
                                [img |-> RenderBy(l.kind, l.src).img, by |-> n,
                                 marks |-> RenderBy(l.kind, l.src).marks]]
        s3 == SetState(s2, l, FALSE, s2.inst[l.owner].error)
    IN  IF l.onloadCalled THEN s0
        ELSE IF Outdated(l) THEN s1
        ELSE [s3 EXCEPT !.loads[n].ready = "scheduled"]

\* img.onerror of loadImageDirectly
DisplayOnerror(s, n) ==
    LET l == s.loads[n]
        s0 == ClearTimeout(s, n)
        s1 == [s0 EXCEPT !.loads[n].onerrorCalled = TRUE, !.loads[n].ran = @ + 1]
        s2 == IF safari THEN [s1 EXCEPT !.cache = CacheDelete(@, {KeyOf(l)})] ELSE s1
    IN  IF l.onerrorCalled THEN s0
        ELSE IF Outdated(l) THEN s2
        ELSE IF l.fb # NoSrc /\ ~l.isFallback /\ l.src # l.fb
        THEN getCachedOrCreateImage(s2, ClosureOf(l), l.fb, TRUE, CanvasMounted(s2, l))
        ELSE [SetState(s2, l, FALSE, TRUE) EXCEPT !.loads[n].errHook = TRUE]

\* the 12 s timer of loadImageDirectly
DisplayTimeout(s, n) ==
    LET l == s.loads[n]
        s0 == ClearTimeout(s, n)
    IN  IF Outdated(l) THEN s0
        ELSE [SetState(s0, l, FALSE, TRUE) EXCEPT !.loads[n].errHook = TRUE]

\* An onload that hands its result to the mounted instances itself.
PipelineOnloadPushing(s, n) ==
    [s EXCEPT !.loads[n].timeoutArmed = FALSE,
              !.loads[n].onloadCalled = TRUE,
              !.loads[n].promise = "resolved",
              !.inst = [i \in Insts |->
                          IF s.inst[i].mounted
                          THEN [s.inst[i] EXCEPT !.isLoading = FALSE,
                                                 !.surf = [img |-> s.loads[n].src, by |-> n,
                                                           marks |-> 1]]
                          ELSE s.inst[i]]]

\* img.onload of preloadImage and of loadImageWithPriority
PipelineOnload(s, n) ==
    LET l == s.loads[n]
        s0 == ClearTimeout(s, n)
        dup == IF l.kind = "preload" THEN l.onloadCalled \/ l.onerrorCalled
               ELSE l.onloadCalled
        s1 == [s0 EXCEPT !.loads[n].onloadCalled = TRUE,
                         !.loads[n].ran = @ + 1,
                         !.cache = CachePut(@, KeyOf(l), RenderBy(l.kind, l.src), now, capacity),
                         !.written = Append(@, KeyOf(l)),
                         !.reg = RegDelete(@, KeyOf(l))]
    IN  IF dup THEN s0 ELSE Settle(s1, n, "resolved")

\* img.onerror of preloadImage and of loadImageWithPriority
PipelineOnerror(s, n) ==
    LET l == s.loads[n]
        s0 == ClearTimeout(s, n)
        dup == IF l.kind = "preload" THEN l.onloadCalled \/ l.onerrorCalled
               ELSE l.onerrorCalled
        s1 == [s0 EXCEPT !.loads[n].onerrorCalled = TRUE, !.loads[n].ran = @ + 1]
    IN  IF dup THEN s0
        ELSE IF l.fb # NoSrc /\ l.src # l.fb THEN TryFallback(s1, n)
        ELSE Settle([s1 EXCEPT !.reg = RegDelete(@, KeyOf(l))], n, "rejected")

Onload(s, n) ==
    IF s.loads[n].kind = "display" THEN DisplayOnload(s, n) ELSE PipelineOnload(s, n)

Onerror(s, n) ==
    IF s.loads[n].kind = "display" THEN DisplayOnerror(s, n) ELSE PipelineOnerror(s, n)

\* The callers outside the handlers set the dedupe flag first and call the handler after.
CallOnloadFlagged(s, n) == Onload([s EXCEPT !.loads[n].onloadCalled = TRUE], n)

CallOnerrorFlagged(s, n) == Onerror([s EXCEPT !.loads[n].onerrorCalled = TRUE], n)

\* the 10 s timer of preloadImage and the 8 s timer of loadImageWithPriority
PipelineTimeout(s, n) ==
    LET l == s.loads[n]
        s0 == ClearTimeout(s, n)
    IN  IF ~l.onloadCalled /\ ~l.onerrorCalled THEN CallOnerrorFlagged(s0, n) ELSE s0

\* one run of the setInterval check once img.complete is true
PollCheck(s, n) ==
    LET l == s.loads[n]
        s0 == [s EXCEPT !.loads[n].pollActive = FALSE]
        free == IF l.kind = "preload"
                THEN IF l.net = "ok" THEN ~l.onloadCalled ELSE ~l.onerrorCalled
                ELSE ~l.onloadCalled /\ ~l.onerrorCalled
    IN  IF ~free THEN s0
        ELSE IF s.loads[n].net = "ok" THEN CallOnloadFlagged(s0, n)
        ELSE CallOnerrorFlagged(s0, n)

\* the timer that stops the polling (8 s display and preload, 6 s priority)
PollStop(s, n) ==
    LET l == s.loads[n]
        s0 == [s EXCEPT !.loads[n].pollActive = FALSE, !.loads[n].pollStopArmed = FALSE]
    IN  IF ~l.onloadCalled /\ ~l.onerrorCalled THEN CallOnerrorFlagged(s0, n) ELSE s0

\* the 3 s timer of a display request waiting for a preload
WaitTimeout(s, n) ==
    \* preloadingImages.delete(cacheKey); loadImageDirectly() then throws
    [s EXCEPT !.loads[n].timeoutArmed = FALSE, !.reg = RegDelete(@, KeyOf(s.loads[n]))]

(***************************************************************************)
(* Initial state and actions                                               *)
(***************************************************************************)
\* The page before its first call: the modal is closed (modalPhoto is null).
ModalClosed == [photo |-> "", loading |-> FALSE, error |-> FALSE, forceArmed |-> FALSE]

\* No function is exercised on its own in the runs of the whole system.
NoProbe == [on |-> "none"]

\* The state after the module was loaded, for a run of b page calls.
Start(b) ==
    /\ safari \in BOOLEAN
    /\ now = 0
    /\ imageCache = <<>>
    /\ preloadingImages = <<>>
    /\ loads = <<>>
    /\ inst = [i \in Insts |-> Unmounted]
    /\ hung = FALSE
    /\ capacity = SmallCapacity
    /\ calls = 0
    /\ written = <<>>
    /\ budget = b
    /\ modal = ModalClosed

Init == Start(MaxCalls) /\ probe = NoProbe

\* A polling interval and its stop timer do nothing once a dedupe flag of their
\* image is set ("if (!img.onloadCalled && !img.onerrorCalled)"; the handler a preload
\* poll calls returns at its duplicate check): they are dropped from the state.
DropIdleTimers(ls) ==
    [n \in 1..Len(ls) |->
        IF ls[n].onloadCalled \/ ls[n].onerrorCalled
        THEN [ls[n] EXCEPT !.pollActive = FALSE, !.pollStopArmed = FALSE]
        ELSE ls[n]]

\* onLoadError of the modal's WatermarkedImage: setModalImageLoading(false) and
\* setModalImageError(true), whenever a handler of this task invoked the hook. The
\* hook is the page's, so a load of an unmounted instance reaches it as well.
ModalHooks(s) ==
    IF modal.photo = "" THEN s.modal
    ELSE IF \E n \in 1..Len(s.loads) :
                s.loads[n].errHook /\ (n > Len(loads) \/ ~loads[n].errHook)
    THEN [s.modal EXCEPT !.loading = FALSE, !.error = TRUE]
    ELSE s.modal

\* One task of the event loop ran to completion and left the program in state s.
Commit(s) ==
    /\ ~hung
    /\ Len(s.loads) <= MaxLoads
    /\ imageCache' = s.cache
    /\ preloadingImages' = s.reg
    /\ loads' = DropIdleTimers(s.loads)
    /\ inst' = s.inst
    /\ hung' = s.hung
    /\ written' = s.written
    /\ modal' = ModalHooks(s)
    /\ UNCHANGED <<safari, now, capacity, budget, probe>>

\* The page makes one more call.
Call ==
    /\ calls < budget
    /\ calls' = calls + 1

ImageKinds == {"display", "preload", "priority"}

\* Date.now() advances.
Tick ==
    /\ now < MaxTime
    /\ now' = now + 1
    /\ UNCHANGED <<safari, imageCache, preloadingImages, loads, inst, hung, capacity, calls,
                   written, budget, modal, probe>>

\* The 30 s setInterval monitor.
MonitorTick ==
    /\ Commit([Cur EXCEPT !.cache = checkMemoryPressure(@, safari, capacity)])
    /\ UNCHANGED calls

\* First render of a WatermarkedImage and its [src, imageId] effect.
MountedInst(i, src, alt, fb, imageId, req) ==
    [mounted |-> TRUE, src |-> src, alt |-> alt, fb |-> fb, imageId |-> imageId,
     currentImageId |-> imageId, isLoading |-> TRUE, error |-> FALSE, req |-> req,
     surf |-> Blank, reloadedFrom |-> ""]

Mount(i, src, alt, fb, useId) ==
    LET imageId == IF useId THEN src ELSE ""
        s0 == [Cur EXCEPT !.inst[i] = MountedInst(i, src, alt, fb, imageId, 1)]
    IN  /\ ~inst[i].mounted
        /\ \A j \in Insts : j < i => inst[j].mounted   \* the slots are interchangeable
        /\ Call
        /\ Commit(getCachedOrCreateImage(s0, Closure(i, alt, fb, imageId, imageId, 1),
                                         src, FALSE, TRUE))

\* The parent re-renders the instance with another photograph: the [src, imageId]
\* effect runs in the closure of that render (new props, state of the last commit).
ChangeRequest(i, src, fb) ==
    LET old == inst[i]
        imageId == IF old.imageId # "" THEN src ELSE ""
        s0 == [Cur EXCEPT !.inst[i] =
                 [old EXCEPT !.src = src, !.fb = fb, !.imageId = imageId,
                             !.currentImageId = imageId,
                             !.isLoading = TRUE, !.error = FALSE,
                             !.req = old.req + 1,
                             !.surf = IF old.error THEN Blank ELSE old.surf]]
    IN  /\ old.mounted
        /\ src # old.src
        /\ Call
        /\ Commit(getCachedOrCreateImage(
                    s0, Closure(i, old.alt, fb, imageId, old.currentImageId, old.req + 1),
                    src, FALSE, ~old.error))

\* The reload button of PhotoSelectPage: delete the key, remount through a new React key.
Reload(i) ==
    LET old == inst[i]
        s0 == [Cur EXCEPT
                 !.cache = CacheDelete(@, {getCacheKey(old.src, old.alt)}),
                 !.loads = [n \in 1..Len(loads) |->
                              IF loads[n].owner = i
                              THEN [loads[n] EXCEPT !.orphan = TRUE, !.detached = TRUE]
                              ELSE loads[n]],
                 \* reloadedFrom is history: what the instance showed when the button was pressed
                 !.inst[i] = [MountedInst(i, old.src, old.alt, old.fb, old.imageId, old.req + 1)
                                EXCEPT !.reloadedFrom = PhaseOf(old)]]
    IN  /\ old.mounted
        /\ Call
        /\ Commit(getCachedOrCreateImage(
                    s0, Closure(i, old.alt, old.fb, old.imageId, old.imageId, old.req + 1),
                    old.src, FALSE, TRUE))

\* preloadImage(src, alt, fallbackSrc) called by the page.
Preload(src, alt, fb) ==
    /\ StartPipeline(Cur, "preload", src, alt, fb).ret > Len(loads)
    /\ Commit(StartPipeline(Cur, "preload", src, alt, fb).s)
    /\ Call

\* window.loadImageWithPriority(src, alt, fallbackSrc)
PriorityLoad(src, alt, fb) ==
    /\ StartPipeline(Cur, "priority", src, alt, fb).ret > Len(loads)
    /\ Commit(StartPipeline(Cur, "priority", src, alt, fb).s)
    /\ Call

\* The browser dispatches the load event.
NativeLoad(n) ==
    /\ loads[n].kind \in ImageKinds
    /\ ~loads[n].nativeDone
    /\ loads[n].net \in {"pending", "ok"}
    /\ Commit(Onload([Cur EXCEPT !.loads[n].net = "ok", !.loads[n].nativeDone = TRUE], n))
    /\ UNCHANGED calls

\* The browser dispatches the error event.
NativeError(n) ==
    /\ loads[n].kind \in ImageKinds
    /\ ~loads[n].nativeDone
    /\ loads[n].net \in {"pending", "fail"}
    /\ Commit(Onerror([Cur EXCEPT !.loads[n].net = "fail", !.loads[n].nativeDone = TRUE], n))
    /\ UNCHANGED calls

\* The polling interval finds img.complete before the native event was dispatched
\* (on a constrained engine the event is late or lost); r is what the image decoded to.
Poll(n, r) ==
    /\ loads[n].pollActive
    /\ loads[n].net = "pending"
    /\ Commit(PollCheck([Cur EXCEPT !.loads[n].net = r], n))
    /\ UNCHANGED calls

\* The timer that ends the polling fires.
PollStopFire(n) ==
    /\ loads[n].pollStopArmed
    /\ Commit(PollStop(Cur, n))
    /\ UNCHANGED calls

\* The load timeout fires; it was armed together with, and after, the polling stop.
Timeout(n) ==
    /\ loads[n].timeoutArmed
    /\ ~loads[n].pollStopArmed
    /\ Commit(IF loads[n].kind = "display" THEN DisplayTimeout(Cur, n)
              ELSE IF loads[n].kind = "wait" THEN WaitTimeout(Cur, n)
              ELSE PipelineTimeout(Cur, n))
    /\ UNCHANGED calls

\* The setTimeout that calls onLoadComplete fires.
HookFire(n) ==
    /\ loads[n].ready = "scheduled"
    /\ Commit([Cur EXCEPT !.loads[n].ready = "fired"])
    /\ UNCHANGED calls

Next ==
    \/ Tick
    \/ MonitorTick
    \/ \E i \in Insts, src \in Srcs, alt \in Labels, useId \in BOOLEAN :
          \E fb \in Fallbacks(src) : Mount(i, src, alt, fb, useId)
    \/ \E i \in Insts, src \in Srcs : \E fb \in Fallbacks(src) : ChangeRequest(i, src, fb)
    \/ \E i \in Insts : Reload(i)
    \/ \E src \in Srcs, alt \in Labels : \E fb \in Fallbacks(src) : Preload(src, alt, fb)
    \/ \E src \in Srcs, alt \in Labels : \E fb \in Fallbacks(src) : PriorityLoad(src, alt, fb)
    \/ \E n \in 1..Len(loads) : NativeLoad(n)
    \/ \E n \in 1..Len(loads) : NativeError(n)
    \/ \E n \in 1..Len(loads), r \in {"ok", "fail"} : Poll(n, r)
    \/ \E n \in 1..Len(loads) : PollStopFire(n)
    \/ \E n \in 1..Len(loads) : Timeout(n)
    \/ \E n \in 1..Len(loads) : HookFire(n)

Spec == Init /\ [][Next]_vars

(***************************************************************************)
(* The Preloader with one display instance: repeated preloadImage calls    *)
(* and a lookup that waits for a running preload.                          *)
(***************************************************************************)
\* Calls the page makes in one run of the preloader specification.
MaxPreloadCalls == 3

PreloadNext ==
    \/ \E src \in Srcs, alt \in Labels : \E fb \in Fallbacks(src) : Preload(src, alt, fb)
    \/ \E src \in Srcs, alt \in Labels, useId \in BOOLEAN :
          \E fb \in Fallbacks(src) : Mount(1, src, alt, fb, useId)
    \/ \E n \in 1..Len(loads) : NativeLoad(n)
    \/ \E n \in 1..Len(loads) : NativeError(n)
    \/ \E n \in 1..Len(loads), r \in {"ok", "fail"} : Poll(n, r)
    \/ \E n \in 1..Len(loads) : PollStopFire(n)
    \/ \E n \in 1..Len(loads) : Timeout(n)
    \/ \E n \in 1..Len(loads) : HookFire(n)

PreloadSpec == Start(MaxPreloadCalls) /\ probe = NoProbe /\ [][PreloadNext]_vars

(***************************************************************************)
(* The photo modal of PhotoSelectPage: one WatermarkedImage (instance 1)   *)
(* under the key modalPhoto.id-modalImageKey, the page's loading and error *)
(* overlays, and the preloads its onLoadComplete starts.                   *)
(***************************************************************************)
\* Calls the page makes in one run of the modal: open, next/previous, reload, retry.
MaxPageCalls == 3

\* photos, in the order of the gallery; the modal passes no fallback locator.
Photos == <<"a", "b">>

IndexOf(src) == CHOOSE k \in 1..Len(Photos) : Photos[k] = src

\* The label the page passes as alt.
PageLabel == "p"

\* A new React key: the old instance is unmounted, its canvas leaves the page, and a
\* new instance renders src for the first time.
Remounted(s, i, src, alt, fb, imageId, req, from) ==
    [s EXCEPT !.loads = [n \in 1..Len(s.loads) |->
                           IF s.loads[n].owner = i
                           THEN [s.loads[n] EXCEPT !.orphan = TRUE, !.detached = TRUE]
                           ELSE s.loads[n]],
              !.inst[i] = [MountedInst(i, src, alt, fb, imageId, req)
                             EXCEPT !.reloadedFrom = from]]

\* checkImageCache(photo): in window.imageCache and younger than 60 minutes.
checkImageCache(src) ==
    /\ CacheHas(imageCache, getCacheKey(src, PageLabel))
    /\ now - CacheGet(imageCache, getCacheKey(src, PageLabel)).timestamp < CACHE_EXPIRY_TIME

\* preloadAdjacentImages(currentIndex): preloadImage for the next photos, one on a
\* constrained engine and five elsewhere.
RECURSIVE PreloadFrom(_, _, _)
PreloadFrom(s, k, last) ==
    IF k > last \/ k > Len(Photos) THEN s
    ELSE PreloadFrom(StartPipeline(s, "preload", Photos[k], PageLabel, NoSrc).s, k + 1, last)

preloadAdjacentImages(s, index) ==
    PreloadFrom(s, index + 1, index + (IF safari THEN 1 ELSE 5))

\* handlePhotoClick: open the modal on photo k.
OpenModal(k) ==
    /\ modal.photo = ""
    /\ ~inst[1].mounted
    /\ Call
    /\ Commit(getCachedOrCreateImage(
                [Cur EXCEPT !.modal = [ModalClosed EXCEPT !.photo = Photos[k], !.loading = TRUE],
                            !.inst[1] = MountedInst(1, Photos[k], PageLabel, NoSrc, Photos[k], 1)],
                Closure(1, PageLabel, NoSrc, Photos[k], Photos[k], 1), Photos[k], FALSE, TRUE))

\* goToNextPhoto / goToPrevPhoto: the overlays follow checkImageCache; the 10 s timer
\* reads the modalImageLoading of the render the callback was made in.
GoTo(k) ==
    /\ modal.photo # ""
    /\ k \in {IndexOf(modal.photo) - 1, IndexOf(modal.photo) + 1}
    /\ Call
    /\ Commit(getCachedOrCreateImage(
                Remounted([Cur EXCEPT !.modal =
                             [photo |-> Photos[k],
                              loading |-> ~checkImageCache(Photos[k]),
                              error |-> FALSE,
                              forceArmed |-> modal.forceArmed
                                  \/ (~checkImageCache(Photos[k]) /\ modal.loading)]],
                          1, Photos[k], PageLabel, NoSrc, Photos[k], inst[1].req + 1, ""),
                Closure(1, PageLabel, NoSrc, Photos[k], Photos[k], inst[1].req + 1),
                Photos[k], FALSE, TRUE))

\* The reload button of the modal: overlays reset, key deleted, React key bumped.
ModalReload ==
    /\ modal.photo # ""
    /\ Call
    /\ Commit(getCachedOrCreateImage(
                Remounted([Cur EXCEPT !.modal.loading = TRUE, !.modal.error = FALSE,
                                      !.cache = CacheDelete(@, {getCacheKey(modal.photo, PageLabel)})],
                          1, modal.photo, PageLabel, NoSrc, modal.photo, inst[1].req + 1,
                          PhaseOf(inst[1])),
                Closure(1, PageLabel, NoSrc, modal.photo, modal.photo, inst[1].req + 1),
                modal.photo, FALSE, TRUE))

\* The retry button of the error overlay: "state reset only".
RetryButton ==
    /\ modal.photo # ""
    /\ modal.error
    /\ Call
    /\ Commit([Cur EXCEPT !.modal.error = FALSE, !.modal.loading = TRUE])

\* The 10 s timer of goToNextPhoto / goToPrevPhoto fires.
ForceTimeout ==
    /\ modal.forceArmed
    /\ Commit([Cur EXCEPT !.modal.forceArmed = FALSE, !.modal.loading = FALSE,
                           !.modal.error = TRUE])
    /\ UNCHANGED calls

\* The setTimeout of onLoadComplete fires: the page clears its overlays and
\* handleImageLoadComplete(currentModalIndex) preloads what follows the photo of the
\* render the hook was made in.
ModalHookFire(n) ==
    /\ loads[n].ready = "scheduled"
    /\ Commit(preloadAdjacentImages(
                [Cur EXCEPT !.loads[n].ready = "fired",
                            !.modal.loading = FALSE, !.modal.error = FALSE],
                IndexOf(loads[n].src)))
    /\ UNCHANGED calls

PageNext ==
    \/ \E k \in 1..Len(Photos) : OpenModal(k)
    \/ \E k \in 1..Len(Photos) : GoTo(k)
    \/ ModalReload
    \/ RetryButton
    \/ ForceTimeout
    \/ \E n \in 1..Len(loads) : NativeLoad(n)
    \/ \E n \in 1..Len(loads) : NativeError(n)
    \/ \E n \in 1..Len(loads), r \in {"ok", "fail"} : Poll(n, r)
    \/ \E n \in 1..Len(loads) : PollStopFire(n)
    \/ \E n \in 1..Len(loads) : Timeout(n)
    \/ \E n \in 1..Len(loads) : ModalHookFire(n)

PageSpec == Start(MaxPageCalls) /\ probe = NoProbe /\ [][PageNext]_vars

(***************************************************************************)
(* The Cache Store on its own: every sequence of its operations, over more *)
(* locators than the capacity.                                             *)
(***************************************************************************)
\* Locators the cache-store specification writes.
CacheSrcs == {"a", "b", "c", "d"}
\* imageCache.set calls in one run of the cache-store specification.
MaxPuts == 4
\* Clock ticks the cache-store specification runs for.
MaxCacheTime == 2

\* imageCache.set + cleanupExpiredCache + cleanupOldCache, as the onload handlers of
\* preloadImage and loadImageWithPriority run them.
PutStep(src) ==
    /\ Len(written) < MaxPuts
    /\ imageCache' = CachePut(imageCache, getCacheKey(src, "p"), RenderCanvas(src), now, capacity)
    /\ written' = Append(written, getCacheKey(src, "p"))
    /\ UNCHANGED <<safari, now, preloadingImages, loads, inst, hung, capacity, calls,
                   budget, modal, probe>>

\* imageCache.delete(cacheKey) of the reload button.
InvalidateStep(src) ==
    /\ CacheHas(imageCache, getCacheKey(src, "p"))
    /\ imageCache' = CacheDelete(imageCache, {getCacheKey(src, "p")})
    /\ UNCHANGED <<safari, now, preloadingImages, loads, inst, hung, capacity, calls, written,
                   budget, modal, probe>>

CacheTick ==
    /\ now < MaxCacheTime
    /\ now' = now + 1
    /\ UNCHANGED <<safari, imageCache, preloadingImages, loads, inst, hung, capacity, calls,
                   written, budget, modal, probe>>

CacheNext ==
    \/ \E src \in CacheSrcs : PutStep(src)
    \/ \E src \in CacheSrcs : InvalidateStep(src)
    \/ CacheTick
    \/ MonitorTick

CacheSpec == Init /\ [][CacheNext]_vars

(***************************************************************************)
(* The Watermark Renderer on its own: one decoded bitmap, rendered by each *)
(* of the three onload handlers.                                           *)
(***************************************************************************)
\* The bitmaps rendered are up to MaxScale times the edge limit wide and high.
MaxScale == 3

\* Edge lengths around the multiples of the limit, and three small ones.
ProbeSizes ==
    {1, 2, 600} \cup {k * MAX_CANVAS_DIMENSION + d : k \in 1..MaxScale, d \in {-1, 0, 1}}

\* Nothing rendered yet.
NoArtifact == [img |-> ""]

\* img.width, img.height of the decoded bitmap, and what the engine's double
\* arithmetic loses in a product that is a whole number (slack).
RenderInit ==
    /\ Start(0)
    /\ probe \in {[on |-> "render", bitmap |-> [img |-> "x", w |-> w, h |-> h], slack |-> k,
                    display |-> NoArtifact, preload |-> NoArtifact, priority |-> NoArtifact] :
                   w \in ProbeSizes, h \in ProbeSizes, k \in {0, 1}}

ProbeStep ==
    UNCHANGED <<safari, now, imageCache, preloadingImages, loads, inst, hung, capacity, calls,
                written, budget, modal>>

\* loadImageDirectly.onload renders the bitmap.
RenderOnDisplay ==
    /\ probe.display = NoArtifact
    /\ probe' = [probe EXCEPT !.display = displayRender(probe.bitmap, probe.slack)]
    /\ ProbeStep

\* preloadImage.onload renders the bitmap.
RenderOnPreload ==
    /\ probe.preload = NoArtifact
    /\ probe' = [probe EXCEPT !.preload = preloadRender(probe.bitmap, probe.slack)]
    /\ ProbeStep

\* loadImageWithPriority.onload renders the bitmap.
RenderOnPriority ==
    /\ probe.priority = NoArtifact
    /\ probe' = [probe EXCEPT !.priority = priorityRender(probe.bitmap, probe.slack)]
    /\ ProbeStep

RenderNext == RenderOnDisplay \/ RenderOnPreload \/ RenderOnPriority

RenderSpec == RenderInit /\ [][RenderNext]_vars

(***************************************************************************)
(* The cache key on its own: preloads of locators and labels that hold the *)
(* separator of the key.                                                   *)
(***************************************************************************)
\* Locators and labels: src and alt are arbitrary strings of the caller.
KeySrcs == {"a", "a|b"}
KeyLabels == {"c", "b|c"}

KeyInit == Start(0) /\ probe = [on |-> "keys", pairs |-> <<>>]

\* preloadImage(src, alt) ran to its onload: the artifact of src is stored under
\* getCacheKey(src, alt).
KeyPut(src, alt) ==
    /\ Len(written) < MaxPuts
    /\ imageCache' = CachePut(imageCache, getCacheKey(src, alt), RenderBy("preload", src),
                              now, capacity)
    /\ written' = Append(written, getCacheKey(src, alt))
    /\ probe' = [probe EXCEPT !.pairs = Append(@, [src |-> src, alt |-> alt])]
    /\ UNCHANGED <<safari, now, preloadingImages, loads, inst, hung, capacity, calls,
                   budget, modal>>

KeyNext == \E src \in KeySrcs, alt \in KeyLabels : KeyPut(src, alt)

KeySpec == KeyInit /\ [][KeyNext]_vars

(***************************************************************************)
(* Claims                                                                  *)
(***************************************************************************)
Distinct(w) == \A m, n \in 1..Len(w) : w[m] = w[n] => m = n

\* The keys of the last m writes.
LastKeys(w, m) == {w[n] : n \in (Len(w) - m + 1)..Len(w)}

\* C3: after any sequence of puts and sweeps the Cache Store never holds more
\* entries than its capacity.
C3_OccupancyWithinCapacity == Len(imageCache) <= capacity

\* More distinct keys were written than the capacity, and the store is full.
C3_Witness ==
    /\ Cardinality({written[n] : n \in 1..Len(written)}) > capacity
    /\ Len(imageCache) = capacity

\* No entry that "after" dropped is newer than an entry it kept.
OldestFirst(before, after) ==
    \A r, k \in 1..Len(before) :
        (before[r].key \notin CacheKeys(after) /\ before[k].key \in CacheKeys(after))
            => before[k].timestamp >= before[r].timestamp

NoneExpired(c) == \A n \in 1..Len(c) : ~(now - c[n].timestamp > CACHE_EXPIRY_TIME)

\* Entry e of the store is still there after the step, with the artifact that was put.
Kept(e) ==
    /\ CacheHas(imageCache', e.key)
    /\ CacheGet(imageCache', e.key).canvas = e.canvas

\* The causes the claim names: the age reached the TTL; a put found the store at
\* its capacity; a pressure tier or the constrained-engine cleanup on a miss was
\* due; the instance showing the key was reloaded.
Reloaded(i) ==
    /\ inst[i].mounted
    /\ inst'[i].req = inst[i].req + 1
    /\ inst'[i].src = inst[i].src

RemovalNamed(e) ==
    \/ now - e.timestamp >= CACHE_EXPIRY_TIME
    \/ (written' # written /\ Len(imageCache) >= capacity)
    \/ e.key \notin CacheKeys(checkMemoryPressure(imageCache, safari, capacity))
    \/ (/\ safari
        /\ Len(imageCache) > Keep
        /\ Len(loads') > Len(loads)
        /\ loads'[Len(loads')].kind = "display")
    \/ \E i \in Insts : Reloaded(i) /\ getCacheKey(inst[i].src, inst[i].alt) = e.key

\* The causes the claim does not name, both on a constrained engine only: a lookup
\* found the artifact grey; a display load of the key failed.
RemovalOnConstrainedEngine(e) ==
    /\ safari
    /\ \/ (IsGrayCanvas(e.canvas) /\ (inst' # inst \/ loads' # loads))
       \/ \E n \in 1..Len(loads) :
             /\ loads[n].kind = "display"
             /\ KeyOf(loads[n]) = e.key
             /\ ~loads[n].onerrorCalled
             /\ loads'[n].onerrorCalled

\* A request of instance i that is not a reload starts in this step.
Requested(i) == inst'[i].req # inst[i].req /\ ~Reloaded(i)

\* The lookup of a starting request returns the artifact that was put, if the key is
\* in the store, younger than the TTL and not due for a pressure eviction.
LookupReturnsPut(i) ==
    LET key == getCacheKey(inst'[i].src, inst'[i].alt)
    IN  (/\ Requested(i)
         /\ ~inst[i].error
         /\ CacheHas(checkMemoryPressure(imageCache, safari, capacity), key)
         /\ now - CacheGet(imageCache, key).timestamp < CACHE_EXPIRY_TIME)
            => (/\ inst'[i].surf.img = CacheGet(imageCache, key).canvas.img
                /\ PhaseOf(inst'[i]) = "displaying")

CurrentLoads(i) ==
    {n \in 1..Len(loads) : /\ loads[n].kind = "display"
                           /\ loads[n].owner = i
                           /\ ~loads[n].orphan
                           /\ loads[n].req = inst[i].req}

\* Nothing is armed or scheduled for load n any more.
Quiet(n) ==
    /\ ~loads[n].timeoutArmed
    /\ ~loads[n].pollActive
    /\ ~loads[n].pollStopArmed
    /\ loads[n].ready # "scheduled"

\* C1: once an instance's request has changed from A to B, nothing rendered for A
\* is put on its display surface: whatever is drawn on the surface is drawn by a
\* load of the request the instance is on.
C1_NoStaleContent ==
    [][\A i \in Insts :
          (inst'[i].surf # inst[i].surf /\ inst'[i].surf.by # 0)
              => loads'[inst'[i].surf.by].req = inst'[i].req]_vars

\* C2: two display requests for one key that are outstanding at the same time
\* share one fetch/render pipeline.
C2_OnePipelineForTwoRequests ==
    ~ \E i, j \in Insts :
        /\ i # j
        /\ PhaseOf(inst[i]) = "loading"
        /\ PhaseOf(inst[j]) = "loading"
        /\ \E m \in CurrentLoads(i), n \in CurrentLoads(j) :
              /\ KeyOf(loads[m]) = KeyOf(loads[n])
              /\ loads[m].net = "pending"
              /\ loads[n].net = "pending"

\* C6: a display request that was given a fallback locator different from its
\* primary fails only after one fetch attempt against the fallback.
C6_FallbackBeforeError ==
    \A i \in Insts :
        (/\ PhaseOf(inst[i]) = "error"
         /\ inst[i].fb # NoSrc
         /\ inst[i].fb # inst[i].src)
            => \E n \in 1..Len(loads) :
                  /\ loads[n].owner = i
                  /\ loads[n].req = inst[i].req
                  /\ loads[n].isFallback

\* C7: when the timeout of a preload or priority-load attempt fires before any
\* completion signal, the attempt fails: its promise is rejected or follows the
\* fallback pipeline. (On an unconstrained engine only the timer itself disarms
\* the timeout of an image that received no event.)
C7_TimeoutFailsTheAttempt ==
    \A n \in 1..Len(loads) :
        (/\ loads[n].kind \in {"preload", "priority"}
         /\ ~safari
         /\ ~loads[n].timeoutArmed
         /\ ~loads[n].nativeDone)
            => (loads[n].promise = "rejected" \/ loads[n].follows # 0)

\* C8: from an empty cache, the first request of an instance whose image decodes
\* leaves Loading for Displaying and its completion hook is invoked: once nothing
\* is armed or scheduled for the load any more, the instance is Displaying and
\* the hook has fired.
C8_SuccessfulRequestDisplays ==
    \A i \in Insts : \A n \in CurrentLoads(i) :
        (/\ written = <<>>
         /\ inst[i].req = 1
         /\ ~loads[n].isFallback
         /\ loads[n].net = "ok"
         /\ ~loads[n].errHook
         /\ Quiet(n))
            => (PhaseOf(inst[i]) = "displaying" /\ loads[n].ready = "fired")

\* C9: when the primary locator fails to decode and the fallback succeeds, the
\* Cache Store holds an entry under the original (primary locator, label) key by
\* the time the instance is Displaying the fallback content.
C9_FallbackCachedUnderOriginalKey ==
    [][\A n \in 1..Len(loads) :
          (/\ loads[n].kind = "display"
           /\ loads[n].isFallback
           /\ ~loads[n].orphan
           /\ loads[n].ready = "no"
           /\ loads'[n].ready = "scheduled")
              => CacheHas(imageCache',
                          getCacheKey(inst'[loads[n].owner].src, inst'[loads[n].owner].alt))]_vars

\* C10: after a reload of a Displaying instance, once the fresh fetch+render has
\* brought the instance back to Displaying, the key is in the Cache Store again.
C10_ReloadCachesAgain ==
    [][\A i \in Insts : \A n \in CurrentLoads(i) :
          (/\ inst[i].reloadedFrom = "displaying"
           /\ ~loads[n].isFallback
           /\ loads[n].ready = "no"
           /\ loads'[n].ready = "scheduled"
           /\ PhaseOf(inst'[i]) = "displaying")
              => CacheHas(imageCache', KeyOf(loads[n]))]_vars

\* The step is the retry of the error overlay: the error overlay goes, the loading
\* overlay comes, the modal stays on its photo and on its React key.
RetryStep ==
    /\ modal.error
    /\ ~modal'.error
    /\ modal'.loading
    /\ modal'.photo = modal.photo
    /\ inst'[1].req = inst[1].req

\* C11: from Error, a manual retry removes any cached failure artifact for the key,
\* moves the instance to Loading and starts a new fetch attempt for the key.
C11_RetryStartsNewAttempt ==
    [][(RetryStep /\ PhaseOf(inst[1]) = "error")
          => (/\ ~CacheHas(imageCache', getCacheKey(inst[1].src, inst[1].alt))
              /\ PhaseOf(inst'[1]) = "loading"
              /\ Len(loads') > Len(loads)
              /\ loads'[Len(loads')].kind = "display"
              /\ loads'[Len(loads')].src = inst[1].src)]_vars

\* C16: a preload pipeline is started only while the foreground instance is
\* Displaying, never while its current request is still Loading.
C16_PreloadOnlyWhenDisplaying ==
    [][\A n \in (Len(loads) + 1)..Len(loads') :
          loads'[n].kind = "preload" => PhaseOf(inst'[1]) = "displaying"]_vars

\* C12: when a display request misses the cache and its fetch succeeds, the artifact
\* is in the Cache Store under the request's key by the time the instance is
\* Displaying.
C12_DisplayMissIsCached ==
    [][\A i \in Insts : \A n \in CurrentLoads(i) :
          (/\ inst[i].reloadedFrom = ""
           /\ ~loads[n].isFallback
           /\ loads[n].ready = "no"
           /\ loads'[n].ready = "scheduled"
           /\ PhaseOf(inst'[i]) = "displaying")
              => (/\ CacheHas(imageCache', KeyOf(loads[n]))
                  /\ CacheGet(imageCache', KeyOf(loads[n])).canvas.img = loads[n].src)]_vars

Pipelines == {"preload", "priority"}

\* C14: at any time at most one preload or priority pipeline per key is running
\* (started and not yet settled).
C14_OnePipelinePerKey ==
    \A m, n \in 1..Len(loads) :
        (/\ loads[m].kind \in Pipelines
         /\ loads[n].kind \in Pipelines
         /\ KeyOf(loads[m]) = KeyOf(loads[n])
         /\ loads[m].promise = "pending"
         /\ loads[n].promise = "pending")
            => m = n

\* A preload or priority pipeline was started, or one of its handlers ran.
PipelineChanged ==
    \E n \in 1..Len(loads') :
        loads'[n].kind \in Pipelines /\ (n > Len(loads) \/ loads'[n] # loads[n])

\* A request of instance i waits for the promise of a registered pipeline.
HasWait(i) ==
    \E w \in 1..Len(loads) :
        loads[w].kind = "wait" /\ loads[w].owner = i /\ ~loads[w].nativeDone

\* The step leaves the state and the surface of instance i alone, starts nothing for
\* it and invokes none of its hooks.
Untouched(i) ==
    /\ inst'[i] = inst[i]
    /\ \A m \in 1..Len(loads') :
          loads'[m].owner = i =>
              /\ m <= Len(loads)
              /\ loads'[m].ready = loads[m].ready
              /\ loads'[m].errHook = loads[m].errHook

C17_NoExpiredEntryAfterPut ==
    [][written' # written =>
          \A n \in 1..Len(imageCache') :
              ~(now' - imageCache'[n].timestamp > CACHE_EXPIRY_TIME)]_vars

\* Fewer keys than the capacity were ever written, the clock has passed the TTL, and
\* a put has left nothing but entries of this tick: an older key is gone.
C17_Witness ==
    /\ ~safari
    /\ now > CACHE_EXPIRY_TIME
    /\ Cardinality({written[m] : m \in 1..Len(written)}) < capacity
    /\ imageCache # <<>>
    /\ \A n \in 1..Len(imageCache) : imageCache[n].timestamp = now
    /\ \E m \in 1..Len(written) : written[m] \notin CacheKeys(imageCache)

\* What the renders of the run have produced so far.
Rendered == {probe.display, probe.preload, probe.priority} \ {NoArtifact}

Within(w, h) ==
    w <= MAX_CANVAS_DIMENSION /\ h <= MAX_CANVAS_DIMENSION /\ w * h <= MAX_CANVAS_AREA

Abs(x) == IF x < 0 THEN -x ELSE x

\* Some W*, H* with W* : H* = w : h lie within one pixel of W and of H.
RatioKept(w, h, a) == Abs(a.width * h - a.height * w) <= w + h

\* C18: for every source size (w, h) the surface size (W, H) has W and H within the
\* max edge and W * H within the max area; it is (w, h) when the source is within
\* the bounds, and otherwise keeps the ratio w : h up to one pixel per dimension.
C18_SurfaceSizeWithinBounds ==
    \A a \in Rendered :
        /\ Within(a.width, a.height)
        /\ Within(probe.bitmap.w, probe.bitmap.h)
              => (a.width = probe.bitmap.w /\ a.height = probe.bitmap.h)
        /\ RatioKept(probe.bitmap.w, probe.bitmap.h, a)

\* A bitmap wider than the limit and not as high was rendered at the full width.
C18_Witness ==
    /\ probe.on = "render"
    /\ probe.bitmap.w > MAX_CANVAS_DIMENSION
    /\ probe.bitmap.h < probe.bitmap.w
    /\ probe.bitmap.h > 1
    /\ probe.display # NoArtifact
    /\ probe.display.width = MAX_CANVAS_DIMENSION
    /\ probe.display.height < probe.bitmap.h

\* C19: two renders of the same bitmap produce identical artifacts (the same surface
\* size, the same watermark), whichever of the display, preload and priority-load
\* paths performs them; the label and the cache contents play no part.
C19_RenderIsDeterministic == \A a, b \in Rendered : a = b

\* All three paths have rendered a bitmap that had to be scaled down.
C19_Witness ==
    /\ probe.on = "render"
    /\ ~Within(probe.bitmap.w, probe.bitmap.h)
    /\ probe.display # NoArtifact
    /\ probe.preload # NoArtifact
    /\ probe.priority # NoArtifact
    /\ probe.display.marks > 0

\* C20: distinct (locator, label) pairs yield distinct cache keys, so the entry a
\* lookup of one pair finds is the artifact stored for that pair, never the one
\* stored for another pair.
C20_DistinctPairsDistinctKeys ==
    /\ \A m, n \in 1..Len(probe.pairs) :
          probe.pairs[m] # probe.pairs[n] => written[m] # written[n]
    /\ \A src \in KeySrcs, alt \in KeyLabels :
          CacheHas(imageCache, getCacheKey(src, alt))
              => CacheGet(imageCache, getCacheKey(src, alt)).canvas.img = src

\* No fallback is left to try for load l: none was supplied, it equals the primary,
\* or l is the attempt against the fallback.
NoFallbackLeft(l) == l.fb = NoSrc \/ l.fb = l.src \/ l.isFallback

\* The fetch of display load n failed in this step: the image did not decode, or
\* the load timeout fired before any completion signal.
FetchFailsNow(n) ==
    \/ (loads[n].net = "pending" /\ loads'[n].net = "fail")
    \/ (/\ loads[n].timeoutArmed
        /\ ~loads[n].pollStopArmed
        /\ ~loads'[n].timeoutArmed
        /\ loads'[n].net = "pending")

\* C21: an instance enters Error only when a fetch of its current request failed
\* with no fallback left to try, and whenever a fetch of its current request fails
\* with no fallback left the instance enters Error and its error hook is invoked.
C21_ErrorIffCurrentRequestFailed ==
    [][\A i \in Insts :
          /\ (PhaseOf(inst[i]) # "error" /\ PhaseOf(inst'[i]) = "error")
                => \E n \in CurrentLoads(i) :
                      FetchFailsNow(n) /\ NoFallbackLeft(loads[n])
          /\ \A n \in CurrentLoads(i) :
                (/\ inst'[i].req = inst[i].req
                 /\ FetchFailsNow(n)
                 /\ NoFallbackLeft(loads[n])
                 /\ ~loads[n].errHook)
                    => (PhaseOf(inst'[i]) = "error" /\ loads'[n].errHook)]_vars

(***************************************************************************)
(* One display instance whose request changes, next to the Preloader: a    *)
(* request for a key the Cache Store holds, from every state the instance  *)
(* can be in.                                                              *)
(***************************************************************************)
\* The page calls of one run.
MaxRequestCalls == 3

RequestNext ==
    \/ Tick
    \/ \E src \in Srcs, alt \in Labels : Preload(src, alt, NoSrc)
    \/ \E src \in Srcs, alt \in Labels, useId \in BOOLEAN : Mount(1, src, alt, NoSrc, useId)
    \/ \E src \in Srcs : ChangeRequest(1, src, NoSrc)
    \/ \E n \in 1..Len(loads) : NativeLoad(n)
    \/ \E n \in 1..Len(loads) : NativeError(n)
    \/ \E n \in 1..Len(loads), r \in {"ok", "fail"} : Poll(n, r)
    \/ \E n \in 1..Len(loads) : PollStopFire(n)
    \/ \E n \in 1..Len(loads) : Timeout(n)
    \/ \E n \in 1..Len(loads) : HookFire(n)

RequestSpec == Start(MaxRequestCalls) /\ probe = NoProbe /\ [][RequestNext]_vars

\* The request instance i starts in this step finds a fresh entry under its key,
\* and no pressure tier is due that would evict it first.
FreshHit(i) ==
    /\ inst'[i].req # inst[i].req
    /\ CacheHas(checkMemoryPressure(imageCache, safari, capacity),
                getCacheKey(inst'[i].src, inst'[i].alt))
    /\ now - CacheGet(imageCache, getCacheKey(inst'[i].src, inst'[i].alt)).timestamp
          < CACHE_EXPIRY_TIME

\* C22: a display request whose key has a fresh cache entry goes to Displaying in
\* the same step, with the surface content copied from that entry, and starts no fetch.
C22_FreshHitDisplaysAtOnce ==
    [][\A i \in Insts :
          FreshHit(i) =>
            /\ PhaseOf(inst'[i]) = "displaying"
            /\ inst'[i].surf.img =
                 CacheGet(imageCache, getCacheKey(inst'[i].src, inst'[i].alt)).canvas.img
            /\ inst'[i].surf.marks =
                 CacheGet(imageCache, getCacheKey(inst'[i].src, inst'[i].alt)).canvas.marks
            /\ \A n \in (Len(loads) + 1)..Len(loads') : loads'[n].kind = "hit"]_vars

\* C23: on a constrained engine the body of the success or failure handler of a
\* fetch attempt runs exactly once, in whatever order the native event, the polling
\* check and the polling-stop timer fire: never twice, and once the completion of
\* the image was seen and nothing is armed for the attempt any more, it has run.
C23_HandlerBodyRunsOnce ==
    \A n \in 1..Len(loads) :
        (safari /\ loads[n].kind \in ImageKinds)
            => /\ loads[n].ran <= 1
               /\ (loads[n].net # "pending" /\ Quiet(n)) => loads[n].ran = 1

\* Display load n belongs to a request its instance has left behind.
Superseded(n) ==
    /\ loads[n].kind = "display"
    /\ loads[n].req # inst[loads[n].owner].req

\* C24: when the outcome (success, error or timeout) of a superseded request
\* arrives, the loading flag, the error flag and the surface of its instance stay
\* as they are, and neither the completion hook nor the error hook is invoked.
C24_SupersededOutcomeIsDiscarded ==
    [][\A n \in 1..Len(loads) :
          (/\ Superseded(n)
           /\ loads'[n] # loads[n]
           /\ inst'[loads[n].owner].req = inst[loads[n].owner].req)
              => /\ inst'[loads[n].owner].isLoading = inst[loads[n].owner].isLoading
                 /\ inst'[loads[n].owner].error = inst[loads[n].owner].error
                 /\ inst'[loads[n].owner].surf = inst[loads[n].owner].surf
                 /\ loads'[n].ready = loads[n].ready
                 /\ loads'[n].errHook = loads[n].errHook]_vars

\* The key of the request instance i starts in this step is in the in-flight
\* registry and not in the Cache Store.
RequestInFlight(i) ==
    /\ inst'[i].req # inst[i].req
    /\ getCacheKey(inst'[i].src, inst'[i].alt) \in DOMAIN preloadingImages
    /\ ~CacheHas(imageCache, getCacheKey(inst'[i].src, inst'[i].alt))

\* Wait w of instance i's current request sees the promise it is attached to
\* resolve in this step.
PipelineSucceedsFor(i, w) ==
    /\ loads[w].kind = "wait"
    /\ loads[w].owner = i
    /\ ~loads[w].orphan
    /\ loads[w].req = inst[i].req
    /\ ~loads[w].nativeDone
    /\ loads[loads[w].target].promise = "pending"
    /\ loads'[loads[w].target].promise = "resolved"

\* C25: a display request for a key that is in the in-flight registry starts no
\* fetch of its own, and when the pipeline it is attached to succeeds the instance
\* displays from the cache, again without a fetch of its own.
C25_InFlightRequestAttaches ==
    [][\A i \in Insts :
          /\ RequestInFlight(i)
                => \A n \in (Len(loads) + 1)..Len(loads') : loads'[n].kind # "display"
          /\ \A w \in 1..Len(loads) :
                PipelineSucceedsFor(i, w)
                    => /\ PhaseOf(inst'[i]) = "displaying"
                       /\ ~hung'
                       /\ inst'[i].surf.img # Blank.img
                       /\ inst'[i].surf.by = 0      \* copied from the store, drawn by no load
                       /\ \A n \in (Len(loads) + 1)..Len(loads') :
                             loads'[n].kind # "display"]_vars

\* C26: a key is in the in-flight registry exactly while a pipeline issued for it
\* has not settled: every registered promise is pending, and every pending
\* pipeline is registered under its key.
C26_RegistryHoldsUnsettledPipelines ==
    /\ \A key \in DOMAIN preloadingImages :
          /\ KeyOf(loads[preloadingImages[key]]) = key
          /\ loads[preloadingImages[key]].promise = "pending"
    /\ \A n \in 1..Len(loads) :
          (loads[n].kind \in Pipelines /\ loads[n].promise = "pending")
              => KeyOf(loads[n]) \in DOMAIN preloadingImages

(***************************************************************************)
(* The Cache Store at its real capacity: preloads fill it with one key     *)
(* after the other, and the pressure check runs at any occupancy.          *)
(***************************************************************************)
\* The locators the preloads use, in the order of the calls.
PressureSrcs ==
    <<"a", "b", "c", "d", "e", "f", "g", "h", "i", "j",
      "k", "l", "m", "n", "o", "p", "q", "r", "s", "t">>

\* imageCache.set calls in one run.
MaxPressurePuts == 20

PressureInit ==
    /\ safari \in BOOLEAN
    /\ now = 0
    /\ imageCache = <<>>
    /\ preloadingImages = <<>>
    /\ loads = <<>>
    /\ inst = [i \in Insts |-> Unmounted]
    /\ hung = FALSE
    /\ capacity = MAX_CACHE_SIZE
    /\ calls = 0
    /\ written = <<>>
    /\ budget = 0
    /\ modal = ModalClosed
    /\ probe = [on |-> "pressure", before |-> <<>>, after |-> <<>>]

\* The onload handler of a preload stores the next locator's artifact.
PressurePut ==
    /\ Len(written) < MaxPressurePuts
    /\ imageCache' = CachePut(imageCache,
                              getCacheKey(PressureSrcs[Len(written) + 1], PageLabel),
                              RenderBy("preload", PressureSrcs[Len(written) + 1]),
                              now, capacity)
    /\ written' = Append(written, getCacheKey(PressureSrcs[Len(written) + 1], PageLabel))
    /\ UNCHANGED <<safari, now, preloadingImages, loads, inst, hung, capacity, calls,
                   budget, modal, probe>>

\* One call of checkMemoryPressure; the probe keeps the store before and after it.
PressureCheck ==
    /\ imageCache' = checkMemoryPressure(imageCache, safari, capacity)
    /\ probe' = [on |-> "pressure", before |-> imageCache,
                 after |-> checkMemoryPressure(imageCache, safari, capacity)]
    /\ UNCHANGED <<safari, now, preloadingImages, loads, inst, hung, capacity, calls,
                   written, budget, modal>>

PressureNext == PressurePut \/ PressureCheck

PressureSpec == PressureInit /\ [][PressureNext]_vars

\* The tiers as the claim states them, for occupancy Len(c) and capacity max: at
\* 80% of the capacity or more trim to the capacity, else at 60% or more drop the
\* oldest half, else at 40% or more drop the oldest 30%, else nothing; nothing at
\* all on an engine that is not constrained.
PressureAsStated(c, constrained, max) ==
    IF ~constrained THEN c
    ELSE IF 10 * Len(c) >= 8 * max THEN cleanupOldCache(c, max)
    ELSE IF 10 * Len(c) >= 6 * max THEN CacheDelete(c, OldestKeys(c, HalfOf(Len(c))))
    ELSE IF 10 * Len(c) >= 4 * max THEN CacheDelete(c, OldestKeys(c, ThirdOf(Len(c))))
    ELSE c

\* C27: a pressure check leaves the store as the tiers of the claim say.
C27_PressureTiers == probe.after = PressureAsStated(probe.before, safari, capacity)

\* Entry e is in the store after the step as it was before: same artifact, same
\* timestamp.
Unaltered(e) ==
    /\ CacheHas(imageCache', e.key)
    /\ CacheGet(imageCache', e.key) = e

\* The onload handler of a preload or priority pipeline for the key ran in this
\* step on an image that decoded, and stored what it rendered.
RenderedNow(key) ==
    /\ written' = Append(written, key)
    /\ \E n \in 1..Len(loads) :
          /\ loads[n].kind \in Pipelines
          /\ KeyOf(loads[n]) = key
          /\ loads'[n].net = "ok"
          /\ loads'[n].ran = loads[n].ran + 1
          /\ CacheHas(imageCache', key)
             => CacheGet(imageCache', key).canvas = RenderBy(loads[n].kind, loads[n].src)

\* Every entry the step adds to the store comes from a successful render.
CreatedByRender ==
    \A key \in CacheKeys(imageCache') \ CacheKeys(imageCache) : RenderedNow(key)

MaxCanvases == 6

\* No canvas element yet.
NoCanvas == 0

CanvasInit ==
    /\ Start(MaxCalls)
    /\ probe = [on |-> "canvas",
                heap |-> <<>>,                          \* the pixels of each canvas element
                surf |-> [i \in Insts |-> NoCanvas],    \* canvasRef.current of each instance
                pending |-> [i \in Insts |-> ""],       \* what the running load of it fetches
                from |-> [i \in Insts |-> "none"]]      \* none | cache | load: what filled it last

\* The canvas elements the store refers to.
CanvasObjs(c) == {c[n].canvas.obj : n \in 1..Len(c)}

\* ctx.clearRect on the canvas of every entry a cleanup removes.
ClearEvicted(heap, before, after) ==
    [o \in 1..Len(heap) |->
        IF \E n \in 1..Len(before) :
              before[n].canvas.obj = o /\ before[n].key \notin CacheKeys(after)
        THEN "" ELSE heap[o]]

\* A cache hit that hands the cached canvas itself to the instance.
ShareCached(p, i, canvas) ==
    [p EXCEPT !.surf[i] = canvas.obj, !.from[i] = "cache"]

\* The cache hit: clearRect and drawImage(cached.canvas, 0, 0) on the instance's canvas.
CopyCached(p, i, canvas) ==
    [p EXCEPT !.heap[p.surf[i]] = p.heap[canvas.obj], !.from[i] = "cache"]

\* The first render of an instance creates its canvas element.
WithCanvas(p, i) ==
    IF p.surf[i] # NoCanvas THEN p
    ELSE [p EXCEPT !.heap = Append(@, ""), !.surf[i] = Len(p.heap) + 1]

\* The lookup of a request in the store c the pressure check left: a hit copies, a
\* miss runs the constrained-engine cleanup and starts a load.
CanvasLookup(p, c, i, src) ==
    IF CacheHas(c, getCacheKey(src, PageLabel))
    THEN [cache |-> c,
          probe |-> CopyCached(p, i, CacheGet(c, getCacheKey(src, PageLabel)).canvas)]
    ELSE [cache |-> AggressiveCleanup(c),
          probe |-> [p EXCEPT !.heap = ClearEvicted(@, c, AggressiveCleanup(c)),
                              !.pending[i] = src]]

\* The [src, imageId] effect of instance i for a new src.
CanvasRequest(i, src) ==
    LET c == checkMemoryPressure(imageCache, safari, capacity)
        p == WithCanvas(probe, i)
        r == CanvasLookup([p EXCEPT !.heap = ClearEvicted(@, imageCache, c)], c, i, src)
    IN  /\ src # inst[i].src
        /\ Call
        /\ probe.surf[i] = NoCanvas => Len(probe.heap) < MaxCanvases
        /\ inst' = [inst EXCEPT ![i] = [MountedInst(i, src, PageLabel, NoSrc, "", inst[i].req + 1)
                                          EXCEPT !.isLoading = ~CacheHas(c, getCacheKey(src, PageLabel))]]
        /\ imageCache' = r.cache
        /\ probe' = r.probe
        /\ UNCHANGED <<safari, now, preloadingImages, loads, hung, capacity, written,
                       budget, modal>>

\* onload of the load instance i started: drawImage and watermark on its canvas
\* (the pixels are told apart by the bitmap they come from).
CanvasDraw(i) ==
    /\ probe.pending[i] # ""
    /\ probe' = [probe EXCEPT !.heap[probe.surf[i]] = BitmapOf(probe.pending[i]).img,
                              !.pending[i] = "",
                              !.from[i] = "load"]
    /\ inst' = [inst EXCEPT ![i].isLoading = FALSE]
    /\ UNCHANGED <<safari, now, imageCache, preloadingImages, loads, hung, capacity, calls,
                   written, budget, modal>>

\* onload of a preload of src: a canvas of its own is created, drawn and stored.
CanvasStore(src) ==
    LET pix == BitmapOf(src).img
        c == CachePut(imageCache, getCacheKey(src, PageLabel),
                      [obj |-> Len(probe.heap) + 1, img |-> pix], now, capacity)
    IN  /\ ~CacheHas(imageCache, getCacheKey(src, PageLabel))
        /\ Len(probe.heap) < MaxCanvases
        /\ imageCache' = c
        /\ written' = Append(written, getCacheKey(src, PageLabel))
        /\ probe' = [probe EXCEPT !.heap = ClearEvicted(Append(@, pix), imageCache, c)]
        /\ UNCHANGED <<safari, now, preloadingImages, loads, inst, hung, capacity, calls,
                       budget, modal>>

\* The 30 s monitor: checkMemoryPressure clears and removes.
CanvasPressure ==
    /\ imageCache' = checkMemoryPressure(imageCache, safari, capacity)
    /\ probe' = [probe EXCEPT !.heap = ClearEvicted(@, imageCache,
                                          checkMemoryPressure(imageCache, safari, capacity))]
    /\ UNCHANGED <<safari, now, preloadingImages, loads, inst, hung, capacity, calls,
                   written, budget, modal>>

CanvasNext ==
    \/ \E i \in Insts, src \in Srcs : CanvasRequest(i, src)
    \/ \E i \in Insts : CanvasDraw(i)
    \/ \E src \in CacheSrcs : CanvasStore(src)
    \/ CanvasPressure

CanvasSpec == CanvasInit /\ [][CanvasNext]_vars

\* No instance's canvas is a canvas of the store.
SurfaceApart ==
    \A i \in Insts : probe.surf[i] # NoCanvas => probe.surf[i] \notin CanvasObjs(imageCache)

\* Every artifact of the store has the pixels that were rendered into it.
ArtifactsIntact ==
    \A n \in 1..Len(imageCache) :
        probe.heap[imageCache[n].canvas.obj] = imageCache[n].canvas.img

\* A step that is no request and no load completion of instance i leaves the
\* pixels of its surface as they are.
SurfaceKept(i) ==
    (/\ probe.surf[i] # NoCanvas
     /\ inst'[i].req = inst[i].req
     /\ probe'.pending[i] = probe.pending[i])
        => probe'.heap[probe'.surf[i]] = probe.heap[probe.surf[i]]

\* C29: the surface of an instance is a canvas of its own, never the canvas of a
\* cache entry: whatever is drawn into or cleared on a surface, every entry keeps
\* the pixels that were rendered into it, and clearing the canvas of an evicted
\* entry leaves every surface as it is.
C29_SurfaceIsACopy ==
    /\ [](SurfaceApart /\ ArtifactsIntact)
    /\ [][\A i \in Insts : SurfaceKept(i)]_vars

\* An instance shows what it copied from the store, and the entry it copied from
\* has since been evicted and its canvas cleared.
C29_Witness ==
    \E i \in Insts :
        /\ probe.from[i] = "cache"
        /\ ~CacheHas(imageCache, getCacheKey(inst[i].src, PageLabel))
        /\ probe.heap[probe.surf[i]] = BitmapOf(inst[i].src).img
        /\ probe.heap[probe.surf[i]] # ""
        /\ \E o \in 1..Len(probe.heap) :
              /\ o \notin CanvasObjs(imageCache)
              /\ \A j \in Insts : probe.surf[j] # o
              /\ probe.heap[o] = ""

(***************************************************************************)
(* The URL each path hands to its Image, for locators of the storage       *)
(* backend and others.                                                     *)
(***************************************************************************)
\* A locator of another host, and one of the storage backend as the page builds it.
UrlSrcs == {"a", "https://firebasestorage.googleapis.com/o/a?alt=media&quality=10&w=200"}

\* getLowResUrl of WatermarkedImage: "&q=30" is appended to a storage-backend URL.
getLowResUrl(url) ==
    IF Contains(url, "firebasestorage.googleapis.com") THEN url \o "&q=30" ELSE url

\* getPreloadUrl of preloadImage: the URL as it is.
getPreloadUrl(url) == url

\* img.src of the Image of load l.
ImgSrc(l) ==
    IF l.kind = "display" THEN getLowResUrl(l.src)
    ELSE IF l.kind = "preload" THEN getPreloadUrl(l.src)
    ELSE l.src

UrlNext ==
    \/ \E i \in Insts, src \in UrlSrcs, useId \in BOOLEAN : Mount(i, src, PageLabel, NoSrc, useId)
    \/ \E src \in UrlSrcs : Preload(src, PageLabel, NoSrc)
    \/ \E src \in UrlSrcs : PriorityLoad(src, PageLabel, NoSrc)
    \/ \E n \in 1..Len(loads) : NativeLoad(n)
    \/ \E n \in 1..Len(loads) : NativeError(n)
    \/ \E n \in 1..Len(loads) : HookFire(n)

UrlSpec == Start(MaxCalls) /\ probe = NoProbe /\ [][UrlNext]_vars

\* C30: the display path, the preload path and the priority path fetch the same URL
\* for the same cache key, namely the locator as it was supplied.
C30_SameUrlOnEveryPath ==
    \A m, n \in 1..Len(loads) :
        (loads[m].kind \in ImageKinds /\ loads[n].kind \in ImageKinds)
            => /\ ImgSrc(loads[n]) = loads[n].src
               /\ KeyOf(loads[m]) = KeyOf(loads[n]) => ImgSrc(loads[m]) = ImgSrc(loads[n])

(***************************************************************************)
(* preloadAdjacentImages on its own: a gallery of any length, the modal on *)
(* any of its photos, nothing cached and nothing in flight.                *)
(***************************************************************************)
\* The longest gallery.
MaxPhotos == 9

\* photos.length and currentIndex (0-based, as in the page).
AdjacentInit ==
    /\ Start(0)
    /\ probe \in {[on |-> "adjacent", length |-> len, index |-> idx, called |-> <<>>,
                   done |-> FALSE] : len \in 1..MaxPhotos, idx \in 0..(MaxPhotos - 1)}
    /\ probe.index < probe.length

\* A preload breadth that does not look at the engine.
preloadCountEverywhere == 5

\* "const preloadCount = (isSafari && isMobile) ? 1 : 5"
preloadCount == IF safari THEN 1 ELSE 5

\* Array.from({length: preloadCount}, (_, i) => currentIndex + i + 1)
\*     .filter(i => i >= 0 && i < photos.length)
indicesToPreload(currentIndex, length) ==
    SelectSeq([i \in 1..preloadCount |-> currentIndex + (i - 1) + 1],
              LAMBDA i : i >= 0 /\ i < length)

\* The photo at a 0-based index of the gallery.
PhotoAt(i) == PressureSrcs[i + 1]

\* "for (const i of indicesToPreload) preloadImage(highResUrl, alt)", in order.
RECURSIVE PreloadEach(_, _)
PreloadEach(s, idx) ==
    IF idx = <<>> THEN s
    ELSE PreloadEach(StartPipeline(s, "preload", PhotoAt(Head(idx)), PageLabel, NoSrc).s,
                     Tail(idx))

\* handleImageLoadComplete(currentIndex) -> preloadAdjacentImages(currentIndex)
AdjacentPreload ==
    /\ ~probe.done
    /\ probe' = [probe EXCEPT !.called = indicesToPreload(probe.index, probe.length),
                              !.done = TRUE]
    /\ loads' = PreloadEach(Cur, indicesToPreload(probe.index, probe.length)).loads
    /\ preloadingImages' = PreloadEach(Cur, indicesToPreload(probe.index, probe.length)).reg
    /\ UNCHANGED <<safari, now, imageCache, inst, hung, capacity, calls, written, budget, modal>>

AdjacentNext == AdjacentPreload

AdjacentSpec == AdjacentInit /\ [][AdjacentNext]_vars

\* The existing indices among i+1 .. i+b, in order.
IndicesAhead(i, b, length) ==
    [k \in 1..(IF length - 1 - i < b THEN length - 1 - i ELSE b) |-> i + k]

\* C31: after the image at index i finished, the preloader requests exactly the
\* keys at the existing indices among i+1 .. i+b, in order, b being 1 on a
\* constrained engine and 5 elsewhere; never index i, an earlier one or one past
\* the end.
C31_PreloadsTheNextIndices ==
    probe.done =>
        /\ probe.called = IndicesAhead(probe.index, IF safari THEN 1 ELSE 5, probe.length)
        /\ \A k \in 1..Len(probe.called) :
              probe.called[k] > probe.index /\ probe.called[k] < probe.length
        /\ Len(loads) = Len(probe.called)
        /\ \A k \in 1..Len(loads) :
              /\ loads[k].kind = "preload"
              /\ loads[k].src = PhotoAt(probe.called[k])
              /\ KeyOf(loads[k]) \in DOMAIN preloadingImages

\* On an unconstrained engine the gallery ends before the breadth is used up, and on
\* a constrained engine photos follow the one that is preloaded.
C31_Witness ==
    /\ probe.done
    /\ \/ (~safari /\ Len(probe.called) \in 1..4 /\ probe.index + Len(probe.called) = probe.length - 1)
       \/ (safari /\ Len(probe.called) = 1 /\ probe.index + 1 < probe.length - 1)

(***************************************************************************)
(* Display requests under fair firing: whatever the browser has scheduled  *)
(* for an Image (its load or error event, a polling tick, the polling-stop *)
(* timer, the load timeout, a scheduled hook) fires in the end.            *)
(***************************************************************************)
LiveEvents ==
    \/ \E n \in 1..Len(loads) : NativeLoad(n)
    \/ \E n \in 1..Len(loads) : NativeError(n)
    \/ \E n \in 1..Len(loads), r \in {"ok", "fail"} : Poll(n, r)
    \/ \E n \in 1..Len(loads) : PollStopFire(n)
    \/ \E n \in 1..Len(loads) : Timeout(n)
    \/ \E n \in 1..Len(loads) : HookFire(n)

LiveNext ==
    \/ \E src \in Srcs, alt \in Labels, useId \in BOOLEAN :
          \E fb \in Fallbacks(src) : Mount(1, src, alt, fb, useId)
    \/ LiveEvents

LiveSpec == Init /\ [][LiveNext]_vars /\ WF_vars(LiveEvents)

\* C32: every display request leaves Loading in the end: the instance reaches
\* Displaying or Error.
C32_RequestLeavesLoading ==
    \A i \in Insts : (PhaseOf(inst[i]) = "loading") ~> (PhaseOf(inst[i]) \in {"displaying", "error"})

(***************************************************************************)
(* Completion hook and error hook of one request                           *)
(***************************************************************************)
\* C33: for one display request the completion hook and the error hook are
\* mutually exclusive: no request has had both onLoadError and onLoadComplete
\* invoked, also when a load event arrives after the load timeout has fired.
C33_HooksMutuallyExclusive ==
    \A n \in 1..Len(loads) : ~(loads[n].errHook /\ loads[n].ready = "fired")

(***************************************************************************)
(* The end of a wait for a running pipeline                                *)
(***************************************************************************)
\* Wait w of a current request ends in this step: its promise settled or its 3 s
\* timer fired.
WaitEnds(w) ==
    /\ loads[w].kind = "wait"
    /\ ~loads[w].orphan
    /\ loads[w].req = inst[loads[w].owner].req
    /\ loads[w].timeoutArmed
    /\ ~loads'[w].timeoutArmed

\* The display loads this step started for instance i.
DirectLoadsStarted(i) ==
    {n \in (Len(loads) + 1)..Len(loads') :
        loads'[n].kind = "display" /\ loads'[n].owner = i}

\* C34: a display request attached to a running pipeline makes a bounded number
\* of re-lookups: when the pipeline settles or 3 s elapse, the request either
\* displays from the cache or starts exactly one direct load, and it never
\* re-attaches to an already settled pipeline.
C34_WaitEndsInDisplayOrOneLoad ==
    [][\A w \in 1..Len(loads) :
          WaitEnds(w)
              => /\ ~hung'
                 /\ \/ /\ PhaseOf(inst'[loads[w].owner]) = "displaying"
                       /\ inst'[loads[w].owner].surf.by = 0
                       /\ DirectLoadsStarted(loads[w].owner) = {}
                    \/ Cardinality(DirectLoadsStarted(loads[w].owner)) = 1]_vars

(***************************************************************************)
(* The two tests for "is this key cached"                                  *)
(***************************************************************************)
\* preloadImage(src, alt) would return Promise.resolve() now: it takes the key as
\* already cached.
PreloadSkips(src, alt) ==
    /\ getCacheKey(src, alt) \notin DOMAIN preloadingImages
    /\ StartPipeline(Cur, "preload", src, alt, NoSrc).ret = 0

\* The display lookup would take the entry of the key as a hit now.
DisplayTakesAsCached(src, alt) ==
    /\ CacheHas(imageCache, getCacheKey(src, alt))
    /\ now - CacheGet(imageCache, getCacheKey(src, alt)).timestamp < CACHE_EXPIRY_TIME

\* C35: preload(K) treats K as already cached only if K's entry is still fresh;
\* when the only entry for K is older than the TTL a preload starts a pipeline, so
\* the preloader and the display lookup agree on whether K is cached.
C35_PreloadSkipsOnlyFreshEntries ==
    \A src \in Srcs, alt \in Labels :
        PreloadSkips(src, alt) <=> DisplayTakesAsCached(src, alt)

(***************************************************************************)
(* The effects of components/WatermarkedImage.tsx under parent re-renders  *)
(***************************************************************************)
MaxRenders == 4

\* One instance of the component: its props (src, imageId, and cb, the identity of
\* the onLoadComplete / onLoadError closures the parent passed), its state, the
\* dependency lists of the last commit, the Image objects created (fetches), the
\* locators being fetched, the keys stored, and the onLoadComplete calls made.
EffectInit ==
    /\ Start(0)
    /\ probe = [on |-> "effects", mounted |-> FALSE, src |-> NoSrc, imageId |-> NoSrc,
                cb |-> 0, currentSrc |-> NoSrc, currentImageId |-> NoSrc,
                depsA |-> <<>>, depsC |-> <<>>, fetches |-> 0, pending |-> {},
                stored |-> {}, ready |-> 0, renders |-> 0, last |-> "none"]

\* The dependency list of the useCallback around getCachedOrCreateImage.
LookupDeps(p) == <<PageLabel, p.cb, p.cb, NoSrc, p.imageId, p.currentImageId>>

\* getCachedOrCreateImage(imageSrc): a hit draws and schedules onLoadComplete, a
\* miss creates an Image, whose handlers keep the imageId and currentImageId of
\* this render, and sets its src.
EffectLookup(p, imageSrc) ==
    IF imageSrc \in p.stored THEN [p EXCEPT !.ready = @ + 1]
    ELSE [p EXCEPT !.fetches = @ + 1,
                   !.pending = @ \cup {[src |-> imageSrc,
                                        stale |-> p.imageId # p.currentImageId]}]

\* One commit. The src-change effect (dependencies dA) resets the state and loads
\* if src differs from the currentSrc of this render; the display effect
\* (dependencies dC) loads the currentSrc of this render. The effects whose
\* dependencies changed run in this order, then the state they set is applied; a
\* changed state renders and commits again.
RECURSIVE RenderCommit(_)
EffectsRun(p, runA, runC) ==
    IF runC
    THEN EffectLookup(IF runA /\ p.src # p.currentSrc THEN EffectLookup(p, p.src) ELSE p,
                      p.currentSrc)
    ELSE IF runA /\ p.src # p.currentSrc THEN EffectLookup(p, p.src) ELSE p

CommitWith(p, dA, dC) ==
    IF (dA # p.depsA) /\ (p.src # p.currentSrc \/ p.imageId # p.currentImageId)
    THEN RenderCommit([EffectsRun(p, dA # p.depsA, dC # p.depsC)
                          EXCEPT !.depsA = dA, !.depsC = dC,
                                 !.currentSrc = p.src, !.currentImageId = p.imageId])
    ELSE [EffectsRun(p, dA # p.depsA, dC # p.depsC) EXCEPT !.depsA = dA, !.depsC = dC]

RenderCommit(p) ==
    CommitWith(p, <<p.src, p.imageId, LookupDeps(p)>>,
               <<p.currentSrc, LookupDeps(p), p.currentImageId>>)

EffectFrame ==
    UNCHANGED <<safari, now, imageCache, preloadingImages, loads, inst, hung, capacity,
                calls, written, budget, modal>>

\* The component mounts: useState(src), useState(imageId), then the first commit.
EffectMount(src) ==
    /\ ~probe.mounted
    /\ probe' = RenderCommit([probe EXCEPT !.mounted = TRUE, !.src = src, !.imageId = src,
                                           !.currentSrc = src, !.currentImageId = src,
                                           !.last = "mount"])
    /\ EffectFrame

\* The parent renders again and passes the same src, alt and imageId with newly
\* created onLoadComplete / onLoadError closures.
EffectRerender ==
    /\ probe.mounted
    /\ probe.renders < MaxRenders
    /\ probe' = RenderCommit([probe EXCEPT !.cb = @ + 1, !.renders = @ + 1,
                                           !.last = "rerender"])
    /\ EffectFrame

\* The parent passes another src and imageId, with the closures it passed before.
EffectChange(src) ==
    /\ probe.mounted
    /\ probe.renders < MaxRenders
    /\ src # probe.src
    /\ probe' = RenderCommit([probe EXCEPT !.src = src, !.imageId = src,
                                           !.renders = @ + 1, !.last = "change"])
    /\ EffectFrame

\* img.onload of a fetch: a handler whose closure holds an imageId other than its
\* currentImageId returns; else the drawn canvas is stored and onLoadComplete is
\* scheduled.
EffectLoaded(f) ==
    /\ f \in probe.pending
    /\ probe' = IF f.stale
                THEN [probe EXCEPT !.pending = @ \ {f}, !.last = "loaded"]
                ELSE [probe EXCEPT !.pending = @ \ {f}, !.stored = @ \cup {f.src},
                                   !.ready = @ + 1, !.last = "loaded"]
    /\ EffectFrame

EffectNext ==
    \/ \E src \in Srcs : EffectMount(src)
    \/ EffectRerender
    \/ \E src \in Srcs : EffectChange(src)
    \/ \E f \in probe.pending : EffectLoaded(f)

EffectSpec == EffectInit /\ [][EffectNext]_vars

\* C36: each change of an instance's locator issues at most one fetch attempt for
\* the new key (no fallback is configured here), and a re-render of the parent
\* that changes nothing but callback identities issues no further fetch and
\* invokes onLoadComplete no further time.
C36_OneFetchPerChange ==
    [][/\ probe'.last = "change" => probe'.fetches - probe.fetches <= 1
       /\ probe'.last = "rerender" => /\ probe'.fetches = probe.fetches
                                      /\ probe'.ready = probe.ready]_vars

(***************************************************************************)
(* The lookup of a failure artifact                                        *)
(***************************************************************************)
\* Instance i issues a request in this step, on a constrained engine, for a key
\* whose cached artifact is a failure artifact.
GrayLookup(i) ==
    /\ safari
    /\ inst'[i].req # inst[i].req
    /\ CacheHas(imageCache, getCacheKey(inst'[i].src, inst'[i].alt))
    /\ IsGrayCanvas(CacheGet(imageCache, getCacheKey(inst'[i].src, inst'[i].alt)).canvas)

\* The loads of the given kinds this step started for instance i.
StartedFor(i, kinds) ==
    {n \in (Len(loads) + 1)..Len(loads') : loads'[n].kind \in kinds /\ loads'[n].owner = i}

\* C37: on a constrained engine a lookup that finds a failure artifact removes it
\* from the cache, does not copy it into the display surface, and proceeds as a
\* miss: it starts a fresh load (or waits for the pipeline already running).
C37_GrayArtifactIsAMiss ==
    [][\A i \in Insts :
          GrayLookup(i)
              => /\ ~CacheHas(imageCache', getCacheKey(inst'[i].src, inst'[i].alt))
                 /\ StartedFor(i, {"hit"}) = {}
                 /\ ~IsGrayCanvas(inst'[i].surf)
                 /\ StartedFor(i, {"display", "wait"}) # {}]_vars

\* C38: for every source bitmap with width >= 1 and height >= 1 the computed
\* surface has width >= 1 and height >= 1: clamping to the maximum edge and area
\* never produces a zero-sized surface, whatever the aspect ratio.
C38_SurfaceIsNeverEmpty ==
    (probe.bitmap.w >= 1 /\ probe.bitmap.h >= 1)
        => \A a \in Rendered : a.width >= 1 /\ a.height >= 1

(***************************************************************************)
(* The frame of a reload                                                   *)
(***************************************************************************)
\* The entries of cache c stored under keys other than key.
OtherEntries(c, key) == {c[n] : n \in {m \in 1..Len(c) : c[m].key # key}}

\* Reloads in one run, the mount included, and artifacts stored in one run.
MaxReloadCalls == 3
MaxReloadPuts == 9

\* The store at its real capacity, filled by preloads, and one instance that is
\* mounted and reloaded.
ReloadInit ==
    /\ safari \in BOOLEAN
    /\ now = 0
    /\ imageCache = <<>>
    /\ preloadingImages = <<>>
    /\ loads = <<>>
    /\ inst = [i \in Insts |-> Unmounted]
    /\ hung = FALSE
    /\ capacity = MAX_CACHE_SIZE
    /\ calls = 0
    /\ written = <<>>
    /\ budget = MaxReloadCalls
    /\ modal = ModalClosed
    /\ probe = NoProbe

ReloadNext ==
    \/ Len(written) < MaxReloadPuts /\ PressurePut
    \/ \E src \in Srcs : Mount(1, src, PageLabel, NoSrc, TRUE)
    \/ Reload(1)
    \/ \E n \in 1..Len(loads) : NativeLoad(n)
    \/ \E n \in 1..Len(loads) : HookFire(n)

ReloadSpec == ReloadInit /\ [][ReloadNext]_vars

\* C39 as stated: invalidating or reloading key K changes only K's entry: every
\* entry stored under a different key is left unchanged, on every engine.
C39_AsStated ==
    [][\A i \in Insts :
          Reloaded(i)
              => OtherEntries(imageCache, getCacheKey(inst[i].src, inst[i].alt))
                    = OtherEntries(imageCache', getCacheKey(inst[i].src, inst[i].alt))]_vars

\* The place of key in the iteration order of the store.
Position(c, key) == CHOOSE n \in 1..Len(c) : c[n].key = key

\* The entries under other keys that this step removed.
EvictedOthers(key) == OtherEntries(imageCache, key) \ OtherEntries(imageCache', key)

\* C39, amended: a reload of key K leaves every surviving entry of another key as
\* it was and adds none; on an unconstrained engine it removes no entry of
\* another key; on a constrained engine the lookup of the reload may evict
\* entries of other keys, and then only the oldest ones.
C39_ReloadFrame ==
    [][\A i \in Insts :
          Reloaded(i)
              => /\ OtherEntries(imageCache', getCacheKey(inst[i].src, inst[i].alt))
                       \subseteq OtherEntries(imageCache, getCacheKey(inst[i].src, inst[i].alt))
                 /\ ~safari => EvictedOthers(getCacheKey(inst[i].src, inst[i].alt)) = {}
                 /\ \A e \in EvictedOthers(getCacheKey(inst[i].src, inst[i].alt)) :
                       \A f \in OtherEntries(imageCache', getCacheKey(inst[i].src, inst[i].alt)) :
                           /\ e.timestamp <= f.timestamp
                           /\ Position(imageCache, e.key) < Position(imageCache, f.key)]_vars

\* Seven artifacts were stored, none was evicted by a put or a mount, and the
\* reload of the first key left five entries of other keys.
C39_Witness ==
    /\ safari
    /\ inst[1].reloadedFrom # ""
    /\ Len(written) = 7
    /\ ~CacheHas(imageCache, getCacheKey(inst[1].src, inst[1].alt))
    /\ Len(imageCache) = AGGRESSIVE_KEEP
====
